---- MODULE Spec2Model ----
(***************************************************************************)
(* Attitude Control 2.A: the Scheduler (layered show schedule, pulse       *)
(* timers), the engine pool of the fixture manager, the sACN transmitter   *)
(* and the module status tracker (Supervisor).                             *)
(*                                                                         *)
(* Encoding of JavaScript values.  A slot of a show-id vector is either a  *)
(* number or an array of numbers (one per group).  Both are written as a   *)
(* record [arr, v]: Sc(n) is the number n, Gr(s) the array s.  Times are   *)
(* in milliseconds, as Date values are.                                    *)
(***************************************************************************)
EXTENDS Integers, Sequences, FiniteSets, TLC

VARIABLES
    config,                 \* ConfigManager.config
    clock,                  \* ms elapsed since the process started
    bootTime,               \* the local date and time at which the process started
    mostRecentPacketFromEachSense, \* AttitudeSenseManager: sense id -> its last valid packet
    received,               \* the last UDP packet handled and the senseData events
                            \* its handling emitted (observation only)
    now,                    \* AttitudeScheduler.now (calendar fields of the tick)
    processedShowIds,       \* AttitudeScheduler.processedShowIds (the 4 layers and final)
    activePulseOverrides,   \* AttitudeScheduler.activePulseOverrides
    degraded,               \* AttitudeScheduler.degraded
    schedulerStatus,        \* status of the last moduleStatus event of the Scheduler
    last,                   \* the handler that ran last and what it did (observation only)
    schedule,               \* AttitudeFixtureManager.schedule
    engineInstances,        \* AttitudeFixtureManager.engineInstances (the engine pool)
    engine3,                \* one AttitudeEngine3 with its counters, seed and pixel data
    slotsDatas,             \* AttitudeSACN.slotsDatas: universe -> slot -> value
    whiteBackupMode,        \* AttitudeSACN.whiteBackupMode
    errored,                \* AttitudeSACN.errored
    sent,                   \* the last processDMX(): the universes it found and the frames
                            \* it transmitted (observation only)
    modules,                \* ModuleStatusTracker.modules: name -> status and timestamp
    overallStatus,          \* ModuleStatusTracker.overallStatus
    color,                  \* AttitudeLED.color
    armedSince,             \* history of the arming of white backup (observation only)
    network                 \* NetworkModule: queue, errorCounter, the missed messages
                            \* file, the requests in flight and started, and what
                            \* the server has (observation only)

schedVars == <<config, clock, bootTime, mostRecentPacketFromEachSense, received, now,
               processedShowIds, activePulseOverrides, degraded, schedulerStatus, last>>
fixVars == <<schedule, engineInstances, engine3>>
sacnVars == <<slotsDatas, whiteBackupMode, errored, sent>>
supVars == <<modules, overallStatus, color, armedSince>>
netVars == <<network>>
vars == <<schedVars, fixVars, sacnVars, supVars, netVars>>

----------------------------------------------------------------------------
(* Program constants and model bounds *)

MAX_ZONES_COUNT == 10

\* the clock runs from 0 to MaxSeconds seconds
MaxSeconds == 3

\* number of ports of a configured sense unit in the model
NumPorts == 2

----------------------------------------------------------------------------
(* Values *)

Sc(n) == [arr |-> FALSE, v |-> <<n>>]
Gr(s) == [arr |-> TRUE, v |-> s]
Num(slot) == slot.v[1]

\* new Array(MAX_ZONES_COUNT).fill(0)
Zeros == [z \in 1..MAX_ZONES_COUNT |-> Sc(0)]

\* a vector literal: the listed slots followed by zeros up to ten slots
Vec(s) == [z \in 1..MAX_ZONES_COUNT |-> IF z <= Len(s) THEN s[z] ELSE Sc(0)]

\* JSON.stringify of a show vector, and a string that is not JSON
Json(vec) == [ok |-> TRUE, val |-> vec]
NotJson == [ok |-> FALSE, val |-> <<>>]

NoPriority == 0 - 1

----------------------------------------------------------------------------
(* layerAnOverride(base, layer) *)

\* variant: a scalar base is not broadcast to the groups of the layer
layerZoneWithoutBroadcast(zone, layer, z) ==
    IF z \in DOMAIN layer /\ layer[z].arr
    THEN LET oldZoneData == IF zone.arr THEN zone.v ELSE <<0>>
         IN  Gr([g \in 1..Len(layer[z].v) |->
                    IF layer[z].v[g] > 0 THEN layer[z].v[g]
                    ELSE IF g \in DOMAIN oldZoneData THEN oldZoneData[g]
                    ELSE oldZoneData[1]])
    ELSE IF z \in DOMAIN layer /\ Num(layer[z]) > 0
    THEN layer[z]
    ELSE zone

\* variant: a group without a show always takes the first group of the base
layerZoneFirstGroupOnly(zone, layer, z) ==
    IF z \in DOMAIN layer /\ layer[z].arr
    THEN LET oldZoneData == IF zone.arr THEN zone.v ELSE <<Num(zone)>>
         IN  Gr([g \in 1..Len(layer[z].v) |->
                    IF layer[z].v[g] > 0 THEN layer[z].v[g] ELSE oldZoneData[1]])
    ELSE IF z \in DOMAIN layer /\ Num(layer[z]) > 0
    THEN layer[z]
    ELSE zone

layerZone(zone, layer, z) ==
    IF z \in DOMAIN layer /\ layer[z].arr
    THEN LET oldZoneData == IF zone.arr THEN zone.v ELSE <<Num(zone)>>
         IN  Gr([g \in 1..Len(layer[z].v) |->
                    IF layer[z].v[g] > 0 THEN layer[z].v[g]
                    ELSE IF g \in DOMAIN oldZoneData THEN oldZoneData[g]
                    ELSE oldZoneData[1]])
    ELSE IF z \in DOMAIN layer /\ Num(layer[z]) > 0
    THEN layer[z]
    ELSE zone

layerAnOverride(base, layer) ==
    [z \in DOMAIN base |-> layerZone(base[z], layer, z)]

----------------------------------------------------------------------------
(* Array helpers *)

\* Array.prototype.findIndex, 1-based; 0 when no element satisfies P
findIndex(s, P(_)) ==
    IF \E i \in DOMAIN s : P(s[i])
    THEN CHOOSE i \in DOMAIN s : P(s[i]) /\ \A j \in 1..(i - 1) : ~P(s[j])
    ELSE 0

\* while (a.length < MAX_ZONES_COUNT) a.push(0)
fillRemaining(a) ==
    IF Len(a) < MAX_ZONES_COUNT
    THEN [z \in 1..MAX_ZONES_COUNT |-> IF z <= Len(a) THEN a[z] ELSE Sc(0)]
    ELSE a

\* Array.prototype.splice(index, 1)
splice(s, index) ==
    [i \in 1..(Len(s) - 1) |-> IF i < index THEN s[i] ELSE s[i + 1]]

\* Array.prototype.slice().reverse()
reverse(s) == [i \in 1..Len(s) |-> s[Len(s) + 1 - i]]

----------------------------------------------------------------------------
(* processWeeklySchedule: the result is the layer and whether the catch ran *)

\* variant: the hour after the last hour of the block belongs to the block
isCurrentScheduleBlockInclusiveEnd(block, n) ==
    /\ block.day = n.weekday
    /\ block.start - 1 <= n.hour
    /\ block.start - 1 + block.height >= n.hour

isCurrentScheduleBlock(block, n) ==
    /\ block.day = n.weekday
    /\ block.start - 1 <= n.hour
    /\ block.start - 1 + block.height > n.hour

processWeeklySchedule(cfg, n) ==
    LET isCurrent(block) == isCurrentScheduleBlock(block, n)
        b == findIndex(cfg.scheduleBlocks, isCurrent)
    IN  IF b = 0
        THEN [layer |-> Zeros, threw |-> FALSE]
        ELSE LET hasId(itm) == itm.id = cfg.scheduleBlocks[b].eventBlockId
                 e == findIndex(cfg.eventBlocks, hasId)
             IN  IF e = 0
                 THEN [layer |-> Zeros, threw |-> FALSE]
                 ELSE IF ~cfg.eventBlocks[e].hasShowdata
                 THEN [layer |-> Zeros, threw |-> TRUE]
                 ELSE [layer |-> fillRemaining(cfg.eventBlocks[e].showdata),
                       threw |-> FALSE]

----------------------------------------------------------------------------
(* processCustomScheduleBlocks *)

inDateRange(startMonthDayStamp, endMonthDayStamp, currentMonthDayStamp) ==
    \/ /\ endMonthDayStamp >= startMonthDayStamp
       /\ currentMonthDayStamp >= startMonthDayStamp
       /\ currentMonthDayStamp <= endMonthDayStamp
    \/ /\ endMonthDayStamp < startMonthDayStamp
       /\ \/ currentMonthDayStamp >= startMonthDayStamp
          \/ currentMonthDayStamp <= endMonthDayStamp

\* variant: the end minute belongs to the block
inTimeOfDayInclusiveEnd(thisBlock, n) ==
    LET currentTimeNumber == n.hour * 60 + n.minute
        thisBlockStartNumber == thisBlock.startHour * 60 + thisBlock.startMinute
        thisBlockEndNumber == thisBlock.endHour * 60 + thisBlock.endMinute
    IN  currentTimeNumber >= thisBlockStartNumber /\ currentTimeNumber <= thisBlockEndNumber

inTimeOfDay(thisBlock, n) ==
    LET currentTimeNumber == n.hour * 60 + n.minute
        thisBlockStartNumber == thisBlock.startHour * 60 + thisBlock.startMinute
        thisBlockEndNumber == thisBlock.endHour * 60 + thisBlock.endMinute
    IN  currentTimeNumber >= thisBlockStartNumber /\ currentTimeNumber < thisBlockEndNumber

customBlockRuns(thisBlock, n) ==
    /\ inDateRange(thisBlock.startMonth * 100 + thisBlock.startDay,
                   thisBlock.endMonth * 100 + thisBlock.endDay,
                   n.month * 100 + n.day)
    /\ inTimeOfDay(thisBlock, n)

\* the custom blocks, with a block of the old format taken for an error
RECURSIVE customBlocksFromOldFormatThrows(_, _, _, _)
customBlocksFromOldFormatThrows(blocks, i, n, layer) ==
    IF i > Len(blocks)
    THEN [layer |-> layer, threw |-> FALSE]
    ELSE IF blocks[i].legacy \/ ~blocks[i].hasDates
    THEN [layer |-> Zeros, threw |-> TRUE]
    ELSE IF customBlockRuns(blocks[i], n)
    THEN customBlocksFromOldFormatThrows(blocks, i + 1, n,
                                         layerAnOverride(layer, blocks[i].showdata))
    ELSE customBlocksFromOldFormatThrows(blocks, i + 1, n, layer)

RECURSIVE customBlocksFrom(_, _, _, _)
customBlocksFrom(blocks, i, n, layer) ==
    IF i > Len(blocks)
    THEN [layer |-> layer, threw |-> FALSE]
    ELSE IF blocks[i].legacy
    THEN customBlocksFrom(blocks, i + 1, n, layer)
    ELSE IF ~blocks[i].hasDates
    THEN [layer |-> Zeros, threw |-> TRUE]
    ELSE IF customBlockRuns(blocks[i], n)
    THEN customBlocksFrom(blocks, i + 1, n, layerAnOverride(layer, blocks[i].showdata))
    ELSE customBlocksFrom(blocks, i + 1, n, layer)

processCustomScheduleBlocks(cfg, n) ==
    customBlocksFrom(cfg.customBlocks, 1, n, Zeros)

----------------------------------------------------------------------------
(* processWebOverrides *)

\* the web overrides, with a web override whose override is missing skipped
RECURSIVE webOverridesFromSkipsMissing(_, _, _, _)
webOverridesFromSkipsMissing(webs, i, overrides, layer) ==
    IF i > Len(webs)
    THEN [layer |-> layer, threw |-> FALSE]
    ELSE IF ~webs[i].active \/ webs[i].override_id = 0
    THEN webOverridesFromSkipsMissing(webs, i + 1, overrides, layer)
    ELSE LET hasId(obj) == obj.id = webs[i].override_id
             o == findIndex(overrides, hasId)
         IN  IF o = 0
             THEN webOverridesFromSkipsMissing(webs, i + 1, overrides, layer)
             ELSE IF ~overrides[o].showsdata.ok
             THEN [layer |-> Zeros, threw |-> TRUE]
             ELSE webOverridesFromSkipsMissing(webs, i + 1, overrides,
                     layerAnOverride(layer, overrides[o].showsdata.val))

RECURSIVE webOverridesFrom(_, _, _, _)
webOverridesFrom(webs, i, overrides, layer) ==
    IF i > Len(webs)
    THEN [layer |-> layer, threw |-> FALSE]
    ELSE IF ~webs[i].active \/ webs[i].override_id = 0
    THEN webOverridesFrom(webs, i + 1, overrides, layer)
    ELSE LET hasId(obj) == obj.id = webs[i].override_id
             o == findIndex(overrides, hasId)
         IN  IF o = 0 \/ ~overrides[o].showsdata.ok
             THEN [layer |-> Zeros, threw |-> TRUE]
             ELSE webOverridesFrom(webs, i + 1, overrides,
                                   layerAnOverride(layer, overrides[o].showsdata.val))

\* processWebOverrides that goes through the web overrides in their order
processWebOverridesInOrder(cfg) ==
    webOverridesFrom(cfg.webOverrides, 1, cfg.overrides, Zeros)

processWebOverrides(cfg) ==
    webOverridesFrom(reverse(cfg.webOverrides), 1, cfg.overrides, Zeros)

----------------------------------------------------------------------------
(* AttitudeSenseManager.  A field of a UDP packet is an integer, a number    *)
(* that is not an integer, a string (its characters) or undefined; the      *)
(* strings of the model are made of the characters 0, 1, 2 and the comma.   *)

Integer(n) == [type |-> "integer", n |-> n, chars |-> << >>]
Fraction == [type |-> "fraction", n |-> 0, chars |-> << >>]
Str(chars) == [type |-> "string", n |-> 0, chars |-> chars]
Undefined == [type |-> "undefined", n |-> 0, chars |-> << >>]

Packet(TYPE, ID, DATA, NAME, VERSION, PACKET_NO) ==
    [TYPE |-> TYPE, ID |-> ID, DATA |-> DATA, NAME |-> NAME, VERSION |-> VERSION,
     PACKET_NO |-> PACKET_NO]

SENSE_PORT_COUNT == 16

\* /^([01],){15}[01]$/
dataPattern(chars) ==
    /\ Len(chars) = 2 * 15 + 1
    /\ \A i \in 1..Len(chars) :
          IF i % 2 = 1 THEN chars[i] \in { "0", "1" } ELSE chars[i] = ","

\* variant: a packet without PACKET_NO passes
validateSenseDataObjectWithoutPacketNo(obj) ==
    /\ obj.TYPE = Integer(1)
    /\ obj.ID.type = "integer"
    /\ obj.DATA.type = "string" /\ dataPattern(obj.DATA.chars)
    /\ obj.NAME.type = "string"
    /\ obj.VERSION.type # "undefined"

\* validateSenseDataObject(obj): TRUE when it returns, FALSE when it throws
validateSenseDataObject(obj) ==
    /\ obj.TYPE = Integer(1)
    /\ obj.ID.type = "integer"
    /\ obj.DATA.type = "string" /\ dataPattern(obj.DATA.chars)
    /\ obj.NAME.type = "string"
    /\ obj.VERSION.type # "undefined"
    /\ obj.PACKET_NO.type # "undefined"

\* the digit of a character of the model's strings
Digit(ch) == IF ch = "0" THEN 0 ELSE IF ch = "1" THEN 1 ELSE 2

\* dataString.split(',').map(Number) from character i on: n is the number of
\* the digits read since the last comma (Number of an empty item is 0)
RECURSIVE splitFrom(_, _, _, _)
splitFrom(chars, i, n, numbers) ==
    IF i > Len(chars) THEN Append(numbers, n)
    ELSE IF chars[i] = "," THEN splitFrom(chars, i + 1, 0, Append(numbers, n))
    ELSE splitFrom(chars, i + 1, n * 10 + Digit(chars[i]), numbers)

\* processSensePortData(dataString)
processSensePortData(dataString) == splitFrom(dataString.chars, 1, 0, << >>)

\* handleNewSenseData(object): the cache after the packet, the senseData events
\* it emits (without their timestamp) and the statuses it reports
handleNewSenseData(cache, object) ==
    IF object.TYPE # Integer(1)
    THEN [cache |-> cache, senseData |-> << >>, events |-> << >>]
    ELSE IF ~validateSenseDataObject(object)
    THEN [cache |-> cache, senseData |-> << >>, events |-> << "errored" >>]
    ELSE [cache |-> [i \in DOMAIN cache \cup { object.ID.n } |->
                        IF i = object.ID.n THEN object ELSE cache[i]],
          senseData |-> << [name |-> object.NAME, type |-> object.TYPE, id |-> object.ID,
                            version |-> object.VERSION, packet_no |-> object.PACKET_NO,
                            data |-> processSensePortData(object.DATA)] >>,
          events |-> << "operational" >>]

\* getSensePortDataById(id): the port data of the cached packet, or zeros for
\* an unknown id (the ids looked up are integers, which parseInt leaves alone)
getSensePortDataById(cache, id) ==
    IF id \in DOMAIN cache THEN processSensePortData(cache[id].DATA)
    ELSE [p \in 1..SENSE_PORT_COUNT |-> 0]

----------------------------------------------------------------------------
(* processOverrides *)

\* the order of the ports with ties broken by ascending original index
portBeforeAscendingIndex(ports, i, j) ==
    LET aPriority == ports[i].priority
        bPriority == ports[j].priority
        aInf == aPriority = NoPriority
        bInf == bPriority = NoPriority
    IN  IF aInf /\ bInf THEN i < j
        ELSE IF aInf THEN FALSE
        ELSE IF bInf THEN TRUE
        ELSE IF aPriority # bPriority THEN aPriority < bPriority
        ELSE i < j

\* the ports of a sense with portNumber = index + 1 (here 1-based), sorted by
\* priority (not a number: Infinity), ties by descending original index
portBefore(ports, i, j) ==
    LET aPriority == ports[i].priority
        bPriority == ports[j].priority
        aInf == aPriority = NoPriority
        bInf == bPriority = NoPriority
    IN  IF aInf /\ bInf THEN i > j
        ELSE IF aInf THEN FALSE
        ELSE IF bInf THEN TRUE
        ELSE IF aPriority # bPriority THEN aPriority < bPriority
        ELSE i > j

sortedPorts(ports) ==
    LET rank(i) == Cardinality({j \in DOMAIN ports : portBefore(ports, j, i)}) + 1
        at(k) == CHOOSE i \in DOMAIN ports : rank(i) = k
    IN  [k \in 1..Len(ports) |->
            [portNumber |-> at(k), mode |-> ports[at(k)].mode,
             override_id |-> ports[at(k)].override_id,
             priority |-> ports[at(k)].priority,
             timeLength |-> ports[at(k)].timeLength,
             timeMode |-> ports[at(k)].timeMode]]

\* activeUntil.setSeconds / setMinutes / setHours (+ duration)
timeModeMs(timeMode) ==
    IF timeMode = "sec" THEN 1000
    ELSE IF timeMode = "min" THEN 60000
    ELSE 3600000

validTimeMode(timeMode) == timeMode \in {"sec", "min", "hour"}

\* update the activeUntil of the timer of this port, or push a new timer
upsertPulse(pulses, senseId, portNumber, activeUntil) ==
    LET isIt(o) == o.attitudeSenseId = senseId /\ o.portNumber = portNumber
        existing == findIndex(pulses, isIt)
    IN  IF existing # 0
        THEN [pulses EXCEPT ![existing].activeUntil = activeUntil]
        ELSE Append(pulses, [attitudeSenseId |-> senseId, portNumber |-> portNumber,
                             activeUntil |-> activeUntil])

\* the layering of one override's showsdata: JSON.parse throws on a bad string
layerShowsdata(st, override, senseId, portNumber) ==
    IF ~override.showsdata.ok
    THEN [st EXCEPT !.threw = TRUE]
    ELSE [st EXCEPT !.layer = layerAnOverride(st.layer, override.showsdata.val),
                    !.layered = st.layered \cup {<<senseId, portNumber>>}]

\* checkPulse that still counts a timer as active at the instant activeUntil
checkPulseInclusive(st, override, senseId, portNumber, clk) ==
    LET isIt(o) == o.attitudeSenseId = senseId /\ o.portNumber = portNumber
        found == findIndex(st.pulses, isIt)
    IN  IF found = 0 THEN st
        ELSE IF clk <= st.pulses[found].activeUntil
        THEN layerShowsdata(st, override, senseId, portNumber)
        ELSE [st EXCEPT !.pulses = splice(st.pulses, found)]

\* the pulse branch after the timer update: layer while active, remove when expired
checkPulse(st, override, senseId, portNumber, clk) ==
    LET isIt(o) == o.attitudeSenseId = senseId /\ o.portNumber = portNumber
        found == findIndex(st.pulses, isIt)
    IN  IF found = 0 THEN st
        ELSE IF clk < st.pulses[found].activeUntil
        THEN layerShowsdata(st, override, senseId, portNumber)
        ELSE [st EXCEPT !.pulses = splice(st.pulses, found)]

\* the body of sortedPorts.forEach for one port
processPort(st, senseId, port, isThisPortActive, overrides, clk) ==
    IF port.override_id <= 0 THEN st
    ELSE LET hasId(o) == o.id = port.override_id
             ov == findIndex(overrides, hasId)
         IN  IF ov = 0 THEN st
             ELSE IF port.mode = "toggle"
             THEN IF isThisPortActive
                  THEN layerShowsdata(st, overrides[ov], senseId, port.portNumber)
                  ELSE st
             ELSE IF port.mode = "pulse"
             THEN IF isThisPortActive
                  THEN IF port.timeLength <= 0 \/ ~validTimeMode(port.timeMode)
                       THEN st
                       ELSE checkPulse(
                                [st EXCEPT !.pulses =
                                    upsertPulse(st.pulses, senseId, port.portNumber,
                                        clk + port.timeLength * timeModeMs(port.timeMode))],
                                overrides[ov], senseId, port.portNumber, clk)
                  ELSE checkPulse(st, overrides[ov], senseId, port.portNumber, clk)
             ELSE st

RECURSIVE portsFrom(_, _, _, _, _, _, _)
portsFrom(st, senseId, ports, i, data, overrides, clk) ==
    IF i > Len(ports) \/ st.threw THEN st
    ELSE portsFrom(
            processPort(st, senseId, ports[i],
                        IF ports[i].portNumber \in DOMAIN data
                        THEN data[ports[i].portNumber] = 1 ELSE FALSE,
                        overrides, clk),
            senseId, ports, i + 1, data, overrides, clk)

RECURSIVE sensesFrom(_, _, _, _, _, _)
sensesFrom(st, senses, i, cache, overrides, clk) ==
    IF i > Len(senses) \/ st.threw THEN st
    ELSE sensesFrom(
            portsFrom(st, senses[i].id, sortedPorts(senses[i].data), 1,
                      getSensePortDataById(cache, senses[i].id), overrides, clk),
            senses, i + 1, cache, overrides, clk)

\* processOverrides whose catch leaves the partly built layer in place
processOverridesKeepsPartialLayer(cfg, cache, pulses, clk) ==
    sensesFrom([layer |-> Zeros, pulses |-> pulses, threw |-> FALSE, layered |-> {}],
               cfg.attitudeSenses, 1, cache, cfg.overrides, clk)

\* the result: the layer, the timers, whether the catch ran, and the ports layered
processOverrides(cfg, cache, pulses, clk) ==
    LET st == sensesFrom([layer |-> Zeros, pulses |-> pulses, threw |-> FALSE,
                          layered |-> {}],
                         cfg.attitudeSenses, 1, cache, cfg.overrides, clk)
    IN  IF st.threw
        THEN [st EXCEPT !.layer = Zeros, !.layered = {}]
        ELSE st

----------------------------------------------------------------------------
(* The objects of the configuration that processSchedule() reads.  The getters *)
(* of the ConfigManager return the arrays of the configuration themselves, so  *)
(* a write through them would be a write to the configuration.                *)

\* the ports of every sense with their portNumber, sorted
numberedAndSorted(senses) ==
    [s \in DOMAIN senses |-> [senses[s] EXCEPT !.data = sortedPorts(@)]]

\* processOverrides that numbers and sorts the ports it got from the getter
sensesOfProcessOverridesInPlace(senses) ==
    [configured |-> numberedAndSorted(senses), worked |-> numberedAndSorted(senses)]

\* processOverrides numbers and sorts the ports of the copy that
\* JSON.parse(JSON.stringify(getAttitudeSenses())) made: the senses of the
\* configuration, and the senses it works on
sensesOfProcessOverrides(senses) ==
    [configured |-> senses, worked |-> numberedAndSorted(senses)]

\* processWeeklySchedule fills the copy [...eventBlock.showdata] with zeros: the
\* showdata of the event block, and the layer
showdataOfWeeklySchedule(showdata) ==
    [configured |-> showdata, layer |-> fillRemaining(showdata)]

\* the event blocks after processWeeklySchedule at calendar time n
eventBlocksOfWeeklySchedule(cfg, n) ==
    LET isCurrent(block) == isCurrentScheduleBlock(block, n)
        b == findIndex(cfg.scheduleBlocks, isCurrent)
        hasId(itm) == itm.id = cfg.scheduleBlocks[b].eventBlockId
        e == IF b = 0 THEN 0 ELSE findIndex(cfg.eventBlocks, hasId)
    IN  IF e = 0 \/ ~cfg.eventBlocks[e].hasShowdata
        THEN cfg.eventBlocks
        ELSE [cfg.eventBlocks EXCEPT
                 ![e].showdata = showdataOfWeeklySchedule(@).configured]

\* the configuration after the four layers were processed at calendar time n
configAfterLayers(cfg, n) ==
    [cfg EXCEPT !.eventBlocks = eventBlocksOfWeeklySchedule(cfg, n),
                !.attitudeSenses = sensesOfProcessOverrides(@).configured]

----------------------------------------------------------------------------
(* layerScheduleToCreateFinal *)

\* layerScheduleToCreateFinal with the custom layer put above the sensor layer
layerScheduleCustomOnTop(weekly, custom, overrides, webOverrides) ==
    layerAnOverride(layerAnOverride(layerAnOverride(weekly, overrides), custom),
                    webOverrides)

layerScheduleToCreateFinal(weekly, custom, overrides, webOverrides) ==
    LET defaultAndCustom == layerAnOverride(weekly, custom)
        andOverrides == layerAnOverride(defaultAndCustom, overrides)
        andWebOverrides == layerAnOverride(andOverrides, webOverrides)
    IN  andWebOverrides

----------------------------------------------------------------------------
(* processSchedule: the new Scheduler state after one tick at calendar time n *)

\* processSchedule that creates the final schedule before the web overrides
\* are processed
processScheduleFinalBeforeWebOverrides(cfg, cache, pulses, wasDegraded, n, clk) ==
    LET w == processWeeklySchedule(cfg, n)
        c == processCustomScheduleBlocks(cfg, n)
        o == processOverrides(cfg, cache, pulses, clk)
        b == processWebOverrides(cfg)
        failed == (IF w.threw THEN {"defaultWeeklySchedule"} ELSE {})
                  \cup (IF c.threw THEN {"customScheduleBlocks"} ELSE {})
                  \cup (IF o.threw THEN {"overrides"} ELSE {})
                  \cup (IF b.threw THEN {"webOverrides"} ELSE {})
        nowDegraded == wasDegraded \/ failed # {}
    IN  [processedShowIds |->
            [defaultWeeklySchedule |-> w.layer,
             customScheduleBlocks |-> c.layer,
             overrides |-> o.layer,
             webOverrides |-> b.layer,
             final |-> layerScheduleToCreateFinal(w.layer, c.layer, o.layer, Zeros)],
         pulses |-> o.pulses,
         degraded |-> nowDegraded,
         status |-> IF nowDegraded THEN "degraded" ELSE "operational",
         failed |-> failed,
         layered |-> o.layered]

processSchedule(cfg, cache, pulses, wasDegraded, n, clk) ==
    LET w == processWeeklySchedule(cfg, n)
        c == processCustomScheduleBlocks(cfg, n)
        o == processOverrides(cfg, cache, pulses, clk)
        b == processWebOverrides(cfg)
        failed == (IF w.threw THEN {"defaultWeeklySchedule"} ELSE {})
                  \cup (IF c.threw THEN {"customScheduleBlocks"} ELSE {})
                  \cup (IF o.threw THEN {"overrides"} ELSE {})
                  \cup (IF b.threw THEN {"webOverrides"} ELSE {})
        nowDegraded == wasDegraded \/ failed # {}
    IN  [processedShowIds |->
            [defaultWeeklySchedule |-> w.layer,
             customScheduleBlocks |-> c.layer,
             overrides |-> o.layer,
             webOverrides |-> b.layer,
             final |-> layerScheduleToCreateFinal(w.layer, c.layer, o.layer, b.layer)],
         pulses |-> o.pulses,
         degraded |-> nowDegraded,
         status |-> IF nowDegraded THEN "degraded" ELSE "operational",
         failed |-> failed,
         layered |-> o.layered]

----------------------------------------------------------------------------
(* The configurations the server sends, and the calendar times of the ticks *)

ScheduleBlock(day, start, height, eventBlockId) ==
    [day |-> day, start |-> start, height |-> height, eventBlockId |-> eventBlockId]

EventBlock(id, showdata) == [id |-> id, hasShowdata |-> TRUE, showdata |-> showdata]
EventBlockNoShowdata(id) == [id |-> id, hasShowdata |-> FALSE, showdata |-> <<>>]

\* a custom block for January 1st to 15th, 09:00 to 10:00
CustomBlock(showdata) ==
    [legacy |-> FALSE, hasDates |-> TRUE,
     startMonth |-> 1, startDay |-> 1, endMonth |-> 1, endDay |-> 15,
     startHour |-> 9, startMinute |-> 0, endHour |-> 10, endMinute |-> 0,
     showdata |-> showdata]
CustomBlockNoDates(showdata) ==
    [CustomBlock(showdata) EXCEPT !.hasDates = FALSE]
\* a custom block for the dates startMD to endMD (month * 100 + day), 09:00 to 10:00
CustomBlockBetween(startMD, endMD, showdata) ==
    [CustomBlock(showdata) EXCEPT
        !.startMonth = startMD \div 100, !.startDay = startMD % 100,
        !.endMonth = endMD \div 100, !.endDay = endMD % 100]
\* a block of the old format (month and day) that was given start and end dates too
CustomBlockLegacy(showdata) ==
    [CustomBlock(showdata) EXCEPT !.legacy = TRUE]

Override(id, showsdata) == [id |-> id, showsdata |-> showsdata]
WebOverride(active, override_id) == [active |-> active, override_id |-> override_id]

Port(mode, override_id, timeLength, timeMode) ==
    [mode |-> mode, override_id |-> override_id, priority |-> NoPriority,
     timeLength |-> timeLength, timeMode |-> timeMode]
Sense(id, data) == [id |-> id, data |-> data]

TheOverrides ==
    << Override(1, Json(Vec(<<Sc(0), Sc(0), Sc(77)>>))),
       Override(2, Json(Vec(<<Sc(0), Sc(99)>>))),
       Override(3, NotJson) >>

TheScheduleBlocks == << ScheduleBlock(1, 10, 1, 7) >>

EmptyConfig ==
    [scheduleBlocks |-> <<>>, eventBlocks |-> <<>>, customBlocks |-> <<>>,
     overrides |-> <<>>, webOverrides |-> <<>>, attitudeSenses |-> <<>>,
     assignedToLocation |-> FALSE, zones |-> <<>>, fixtures |-> <<>>,
     fixtureTypes |-> <<>>, shows |-> <<>>]

\* weekly schedule only, with a show vector shorter than ten slots
ConfigWeekly ==
    [EmptyConfig EXCEPT
        !.scheduleBlocks = TheScheduleBlocks,
        !.eventBlocks = << EventBlock(7, <<Sc(10), Sc(20)>>) >>]

\* weekly groups, a custom block with groups, an active web override
ConfigGroups ==
    [ConfigWeekly EXCEPT
        !.eventBlocks = << EventBlock(7, Vec(<<Gr(<<5, 0, 7>>), Sc(20)>>)) >>,
        !.customBlocks = << CustomBlock(Vec(<<Gr(<<0, 6, 0>>), Sc(0), Sc(30)>>)) >>,
        !.overrides = TheOverrides,
        !.webOverrides = << WebOverride(TRUE, 2), WebOverride(FALSE, 1) >>]

\* a pulse port (2 s) and a toggle port on sense 1
ConfigSense ==
    [ConfigWeekly EXCEPT
        !.customBlocks = << CustomBlock(Vec(<<Sc(0), Sc(30)>>)) >>,
        !.overrides = TheOverrides,
        !.attitudeSenses =
            << Sense(1, << Port("pulse", 1, 2, "sec"), Port("toggle", 2, 0, "sec") >>) >>]

\* the pulse port has lost its override; port 2 is a pulse of 1 s
ConfigSenseChanged ==
    [ConfigSense EXCEPT
        !.attitudeSenses =
            << Sense(1, << Port("pulse", 0, 2, "sec"), Port("pulse", 2, 1, "sec") >>) >>]

\* an event block of eleven slots
ConfigLongShowdata ==
    [ConfigWeekly EXCEPT
        !.eventBlocks = << EventBlock(7, Vec(<<Sc(10)>>) \o <<Sc(11)>>) >>,
        !.overrides = TheOverrides,
        !.webOverrides = << WebOverride(TRUE, 2) >>]

\* an event block without showdata
ConfigBadWeekly ==
    [ConfigSense EXCEPT !.eventBlocks = << EventBlockNoShowdata(7) >>]

\* a custom block without start and end dates
ConfigBadCustom ==
    [ConfigGroups EXCEPT
        !.customBlocks = << CustomBlock(Vec(<<Sc(0), Sc(30)>>)),
                            CustomBlockNoDates(Vec(<<Sc(40)>>)) >>]

\* custom blocks of three date windows (one wraps around the new year), and weekly
\* blocks for Sunday 09:00-10:00, Monday 08:00-10:00 and Thursday 10:00-11:00;
\* the Thursday block refers to an event block that does not exist
ConfigCalendar ==
    [EmptyConfig EXCEPT
        !.scheduleBlocks = << ScheduleBlock(1, 10, 1, 7), ScheduleBlock(2, 9, 2, 8),
                              ScheduleBlock(5, 11, 1, 9) >>,
        !.eventBlocks = << EventBlock(7, <<Sc(10), Sc(20)>>),
                           EventBlock(8, Vec(<<Gr(<<5, 0, 7>>), Sc(21)>>)) >>,
        !.customBlocks = << CustomBlockBetween(1130, 115, Vec(<<Sc(41)>>)),
                            CustomBlockBetween(116, 129, Vec(<<Sc(0), Sc(42)>>)),
                            CustomBlock(Vec(<<Sc(0), Sc(0), Sc(43)>>)) >>]

\* a block of the old format among the custom blocks, and two weekly blocks for
\* Sunday 09:00-10:00
ConfigCalendarLegacy ==
    [ConfigCalendar EXCEPT
        !.scheduleBlocks = << ScheduleBlock(1, 9, 2, 8) >> \o ConfigCalendar.scheduleBlocks,
        !.customBlocks = << CustomBlockLegacy(Vec(<<Sc(0), Sc(0), Sc(0), Sc(44)>>)) >>
                         \o ConfigCalendar.customBlocks]

\* a toggle port whose override is not JSON, processed after the pulse port
ConfigBadOverride ==
    [ConfigSense EXCEPT
        !.attitudeSenses =
            << Sense(1, << Port("toggle", 3, 0, "sec"), Port("pulse", 1, 2, "sec") >>) >>,
        !.webOverrides = << WebOverride(TRUE, 2) >>]

\* a toggle port whose override is not JSON, processed before the pulse port
ConfigBadOverrideFirst ==
    [ConfigSense EXCEPT
        !.attitudeSenses =
            << Sense(1, << Port("pulse", 1, 2, "sec"), Port("toggle", 3, 0, "sec") >>) >>]

\* two web overrides, each active or not, without an override (0), with
\* override 1 or 2, or with an override that the configuration does not have
WebConfigs ==
    { [ConfigWeekly EXCEPT
          !.overrides = TheOverrides,
          !.webOverrides = << WebOverride(a[1], id[1]), WebOverride(a[2], id[2]) >>] :
        a \in [1..2 -> BOOLEAN], id \in [1..2 -> { 0, 1, 2, 9 }] }

\* two overrides that both set zone 1
PriorityOverrides ==
    << Override(4, Json(Vec(<<Sc(51), Sc(52)>>))),
       Override(5, Json(Vec(<<Sc(61), Sc(0), Sc(63)>>))) >>

\* a toggle port with a priority
PriorityPort(override_id, priority) ==
    [Port("toggle", override_id, 0, "sec") EXCEPT !.priority = priority]

\* sense 1 with toggle ports of these overrides in turn, each port without
\* priority or with priority 1 or 2
PriorityConfigs ==
    { [ConfigWeekly EXCEPT
          !.overrides = PriorityOverrides,
          !.attitudeSenses =
              << Sense(1, [p \in 1..NumPorts |->
                             PriorityPort(IF p % 2 = 1 THEN 4 ELSE 5, priorities[p])]) >>] :
        priorities \in [1..NumPorts -> { NoPriority, 1, 2 }] }

\* three web overrides, each active or not, with one of the two overrides that
\* both set zone 1
WebOrderConfigs ==
    { [ConfigWeekly EXCEPT
          !.overrides = PriorityOverrides,
          !.webOverrides = [k \in 1..3 |-> WebOverride(a[k], id[k])]] :
        a \in [1..3 -> BOOLEAN], id \in [1..3 -> { 4, 5 }] }

\* an active web override that references a missing override
ConfigBadWeb ==
    [ConfigSense EXCEPT !.webOverrides = << WebOverride(TRUE, 9) >>]

Color(red, green, blue) == [red |-> red, green |-> green, blue |-> blue]

Show(id, engineVersion, valid, colors) ==
    [id |-> id, engineVersion |-> engineVersion, valid |-> valid, colors |-> colors]
FixtureType(id, channels, segments, multicountonefixture, colorMode) ==
    [id |-> id, channels |-> channels, segments |-> segments,
     multicountonefixture |-> multicountonefixture, color |-> colorMode]
Fixture(zoneNumber, groupNumber, universe, startAddress, type, quantity) ==
    [zoneNumber |-> zoneNumber, groupNumber |-> groupNumber, universe |-> universe,
     startAddress |-> startAddress, type |-> type, quantity |-> quantity]
Zone(groups) == [groups |-> groups]

\* the shows of the server: 20 is a show of the first engine, 30 is missing
TheShows ==
    << Show(10, "2A", TRUE, << Color(255, 0, 0) >>),
       Show(20, "1", TRUE, << Color(0, 0, 255) >>),
       Show(5, "2A", TRUE, << Color(0, 255, 0) >>),
       Show(6, "2A", TRUE, << Color(9, 9, 9) >>),
       Show(7, "2A", TRUE, << Color(7, 7, 7) >>),
       Show(99, "2A", TRUE, << Color(90, 80, 70) >>) >>

\* a show of the 2A engine with a speed
TimedShow(id, colors, speed) ==
    [id |-> id, engineVersion |-> "2A", valid |-> TRUE, colors |-> colors,
     speed |-> speed]

\* an assigned device: zone 1 without groups and an RGB fixture on universe 1,
\* zone 2 with an RGBW fixture on universe 2
ConfigPatchWeekly ==
    [ConfigWeekly EXCEPT
        !.assignedToLocation = TRUE,
        !.zones = << Zone(0), Zone(0) >>,
        !.fixtureTypes = << FixtureType(1, 3, 1, FALSE, "RGB"),
                            FixtureType(2, 4, 1, FALSE, "RGBW") >>,
        !.fixtures = << Fixture(1, 0, 1, 1, 1, 1), Fixture(2, 0, 2, 1, 2, 1) >>,
        !.shows = TheShows]

\* an assigned device whose zone 1 has three groups, two of them with a fixture
ConfigPatchGroups ==
    [ConfigGroups EXCEPT
        !.customBlocks = << CustomBlock(Vec(<<Gr(<<0, 6, 0>>), Sc(0)>>)) >>,
        !.assignedToLocation = TRUE,
        !.zones = << Zone(3), Zone(0) >>,
        !.fixtureTypes = << FixtureType(1, 3, 1, FALSE, "RGB") >>,
        !.fixtures = << Fixture(1, 1, 1, 1, 1, 1), Fixture(1, 2, 2, 1, 1, 1) >>,
        !.shows = TheShows]

\* an assigned device whose custom block schedules show 30, which does not exist
ConfigUnknownShow ==
    [ConfigPatchWeekly EXCEPT !.customBlocks = << CustomBlock(Vec(<<Sc(0), Sc(30)>>)) >>]

\* an assigned device with show 10 on zone 1 and show 5 on zone 2
ConfigPatchCustom ==
    [ConfigPatchWeekly EXCEPT !.customBlocks = << CustomBlock(Vec(<<Sc(0), Sc(5)>>)) >>]

\* the fixture type of zone 1 has a colour mode that is neither RGB nor RGBW
ConfigBadColorMode ==
    [ConfigPatchCustom EXCEPT !.fixtureTypes[1] = FixtureType(1, 3, 1, FALSE, "RGBA")]

\* the fixture of zone 1 is of a type that does not exist
ConfigBadFixtureType ==
    [ConfigPatchCustom EXCEPT !.fixtures[1] = Fixture(1, 0, 1, 1, 9, 1)]

\* the schedule has groups on zone 1, the zone has none
ConfigGroupsWithoutZoneGroups ==
    [ConfigPatchCustom EXCEPT
        !.eventBlocks = << EventBlock(7, Vec(<<Gr(<<5, 0, 7>>), Sc(20)>>)) >>]

\* the configurations with and without a zone that fails
ZoneConfigs ==
    { ConfigPatchCustom, ConfigBadColorMode, ConfigBadFixtureType,
      ConfigGroupsWithoutZoneGroups, ConfigPatchGroups }

\* show 30 exists, as a show of the first engine that cannot be translated
ConfigLegacyShow ==
    [ConfigUnknownShow EXCEPT
        !.shows = TheShows \o << Show(30, "1", FALSE, << Color(1, 2, 3) >>) >>]

\* the configurations of the fixture manager: unassigned and assigned devices
FixtureConfigs == { ConfigWeekly, ConfigPatchWeekly, ConfigPatchGroups, ConfigUnknownShow }

Configs ==
    { ConfigWeekly, ConfigGroups, ConfigSense, ConfigLongShowdata, ConfigBadWeekly,
      ConfigBadCustom, ConfigBadOverride, ConfigBadWeb }

\* the configurations that differ in the sense ports only
SenseConfigs == { ConfigSense, ConfigSenseChanged, ConfigBadOverride }

\* the configurations that differ in the dates and times of their blocks
CalendarConfigs ==
    { ConfigCalendar, ConfigCalendarLegacy, ConfigBadCustom, ConfigBadWeekly,
      ConfigLongShowdata }

Calendar(month, day, weekday, hour, minute) ==
    [month |-> month, day |-> day, weekday |-> weekday, hour |-> hour, minute |-> minute]

\* the process starts on Sunday January 1st at 09:00:00 or at 09:59:58
BootTimes ==
    { [month |-> 1, day |-> 1, weekday |-> 1, hour |-> 9, minute |-> 0, second |-> 0],
      [month |-> 1, day |-> 1, weekday |-> 1, hour |-> 9, minute |-> 59, second |-> 58] }

\* days of one year on both sides of the ends of the date windows, each with its
\* weekday (1 is Sunday), and starts two seconds before 09:00 and before 10:00
CalendarDays ==
    { <<1, 1, 1>>, <<1, 15, 1>>, <<1, 16, 2>>, <<1, 29, 1>>, <<11, 29, 4>>, <<11, 30, 5>>,
      <<12, 31, 1>> }
CalendarBootTimes ==
    { [month |-> d[1], day |-> d[2], weekday |-> d[3], hour |-> h, minute |-> 59,
       second |-> 58] : d \in CalendarDays, h \in {8, 9} }

\* updateCurrentTime: the calendar fields of the local time `ms` after `boot`
\* (the runs of the model stay within the day of the start)
updateCurrentTime(boot, ms) ==
    LET seconds == boot.second + ms \div 1000
        minutes == boot.minute + seconds \div 60
        hours == boot.hour + minutes \div 60
    IN  Calendar(boot.month, boot.day, boot.weekday, hours, minutes % 60)

\* the DATA of a valid packet: sixteen values, of which the first NumPorts vary
PortDatas ==
    { [p \in 1..SENSE_PORT_COUNT |-> IF p <= NumPorts THEN bits[p] ELSE 0] :
        bits \in [1..NumPorts -> {0, 1}] }

SenseIds == {1}

\* the DATA string of these port data
DataString(data) ==
    Str([i \in 1..(2 * SENSE_PORT_COUNT - 1) |->
            IF i % 2 = 0 THEN "," ELSE IF data[(i + 1) \div 2] = 1 THEN "1" ELSE "0"])

\* a valid packet of sense `id`
SensePacket(id, data, packetNo) ==
    Packet(Integer(1), Integer(id), DataString(data), Str(<< >>), Integer(2), Integer(packetNo))

\* the valid packets of the senses of the configurations
SensePackets == { SensePacket(id, data, 1) : id \in SenseIds, data \in PortDatas }

\* valid packets of two senses with two packet numbers, and packets that are
\* not valid: another TYPE, no TYPE, an ID that is not an integer, no ID, a
\* DATA that is not a string, DATA of 15 and of 17 values, a DATA value of 2,
\* no NAME, no VERSION, no PACKET_NO
Packets ==
    LET ok == SensePacket(1, [p \in 1..SENSE_PORT_COUNT |-> 1], 1)
        short == Str(SubSeq(ok.DATA.chars, 1, Len(ok.DATA.chars) - 2))
        long == Str(ok.DATA.chars \o << ",", "1" >>)
        two == Str([ok.DATA.chars EXCEPT ![1] = "2"])
    IN  { SensePacket(id, data, packetNo) :
            id \in { 1, 2 }, data \in PortDatas, packetNo \in { 1, 2 } }
        \cup { [ok EXCEPT !.TYPE = Integer(2)], [ok EXCEPT !.TYPE = Undefined],
               [ok EXCEPT !.ID = Fraction], [ok EXCEPT !.ID = Undefined],
               [ok EXCEPT !.DATA = Integer(1)], [ok EXCEPT !.DATA = short],
               [ok EXCEPT !.DATA = long], [ok EXCEPT !.DATA = two],
               [ok EXCEPT !.NAME = Undefined], [ok EXCEPT !.VERSION = Undefined],
               [ok EXCEPT !.PACKET_NO = Undefined] }

----------------------------------------------------------------------------
(* ModuleStatusTracker (the Supervisor) *)

\* the period of processAllModulesStatus(), in ms
SAMPLE_INTERVAL == 2000

\* seconds of silence after which a module is unresponsive
UNRESPONSIVE_THRESHOLD == 10

\* '' when the module never reported
getModuleStatusByName(mods, name) ==
    IF name \in DOMAIN mods THEN mods[name].status ELSE ""

\* handler of a moduleStatus event of module `name`, received at time t
moduleStatusListener(mods, name, status, t) ==
    LET newModuleStatus == [status |-> status, timestamp |-> t]
    IN  IF name \in DOMAIN mods
        THEN IF /\ status = "operational"
                /\ mods[name].status \in {"degraded", "errored"}
                /\ (t - mods[name].timestamp) < 1
             THEN mods
             ELSE [mods EXCEPT ![name] = newModuleStatus]
        ELSE [n \in DOMAIN mods \cup {name} |->
                IF n = name THEN newModuleStatus ELSE mods[n]]

\* the events a handler emits one after the other, all received at time t
RECURSIVE emitAll(_, _, _, _, _)
emitAll(mods, name, statuses, i, t) ==
    IF i > Len(statuses) THEN mods
    ELSE emitAll(moduleStatusListener(mods, name, statuses[i], t), name, statuses, i + 1, t)

\* variant: a module is marked as soon as its report is 10 s old
markUnresponsiveAtThreshold(mods, currentTime) ==
    [n \in DOMAIN mods |->
        IF (currentTime - mods[n].timestamp) >= UNRESPONSIVE_THRESHOLD * 1000
        THEN [mods[n] EXCEPT !.status = "unresponsive"]
        ELSE mods[n]]

\* first part of processAllModulesStatus(): no module of the program is a
\* one-time event module
markUnresponsive(mods, currentTime) ==
    [n \in DOMAIN mods |->
        IF (currentTime - mods[n].timestamp) > UNRESPONSIVE_THRESHOLD * 1000
        THEN [mods[n] EXCEPT !.status = "unresponsive"]
        ELSE mods[n]]

\* AttitudeSACN.setWhiteBackupMode(value)
setWhiteBackupMode(mode, value) ==
    IF value = TRUE THEN TRUE ELSE IF value = FALSE THEN FALSE ELSE mode

sacnErrored(mods) == getModuleStatusByName(mods, "AttitudeSACN") = "errored"

criticalErrored(mods) ==
    \/ getModuleStatusByName(mods, "AttitudeScheduler") = "errored"
    \/ getModuleStatusByName(mods, "AttitudeFixtureManager") = "errored"

degradedOrOffline(mods) ==
    \/ getModuleStatusByName(mods, "AttitudeScheduler") = "degraded"
    \/ getModuleStatusByName(mods, "AttitudeFixtureManager") = "degraded"
    \/ getModuleStatusByName(mods, "ConfigManager") = "errored"
    \/ getModuleStatusByName(mods, "StatusTracker") = "errored"
    \/ getModuleStatusByName(mods, "NetworkModule") = "errored"

\* the rules on the network after the rules on the modules; st is the record of
\* the LED colour, the overall status and the white backup mode
networkRules(mods, st) ==
    IF getModuleStatusByName(mods, "NetworkModule") = "online"
    THEN [st EXCEPT !.color = "A", !.overallStatus = "online"]
    ELSE IF getModuleStatusByName(mods, "NetworkModule") = "offline"
    THEN [st EXCEPT !.color = "B", !.overallStatus = "offline"]
    ELSE st

\* variant: the network rules are consulted before the degraded rule
processModuleStatusesNetworkFirst(mods, st) ==
    IF sacnErrored(mods)
    THEN [st EXCEPT !.color = "E", !.overallStatus = "errored"]
    ELSE IF criticalErrored(mods)
    THEN [color |-> "C", overallStatus |-> "white",
          whiteBackupMode |-> setWhiteBackupMode(st.whiteBackupMode, TRUE)]
    ELSE LET off == [st EXCEPT !.whiteBackupMode = setWhiteBackupMode(@, FALSE)]
         IN  IF getModuleStatusByName(mods, "NetworkModule") \in {"online", "offline"}
             THEN networkRules(mods, off)
             ELSE IF degradedOrOffline(mods)
             THEN [off EXCEPT !.color = "F", !.overallStatus = "degraded"]
             ELSE off

\* variant: white backup is never disabled
processModuleStatusesNeverDisarms(mods, st) ==
    IF sacnErrored(mods)
    THEN [st EXCEPT !.color = "E", !.overallStatus = "errored"]
    ELSE IF criticalErrored(mods)
    THEN [color |-> "C", overallStatus |-> "white",
          whiteBackupMode |-> setWhiteBackupMode(st.whiteBackupMode, TRUE)]
    ELSE IF degradedOrOffline(mods)
    THEN [st EXCEPT !.color = "F", !.overallStatus = "degraded"]
    ELSE networkRules(mods, st)

\* variant: an errored sACN module disables white backup
processModuleStatusesSacnDisarms(mods, st) ==
    IF sacnErrored(mods)
    THEN [color |-> "E", overallStatus |-> "errored",
          whiteBackupMode |-> setWhiteBackupMode(st.whiteBackupMode, FALSE)]
    ELSE IF criticalErrored(mods)
    THEN [color |-> "C", overallStatus |-> "white",
          whiteBackupMode |-> setWhiteBackupMode(st.whiteBackupMode, TRUE)]
    ELSE LET off == [st EXCEPT !.whiteBackupMode = setWhiteBackupMode(@, FALSE)]
         IN  IF degradedOrOffline(mods)
             THEN [off EXCEPT !.color = "F", !.overallStatus = "degraded"]
             ELSE networkRules(mods, off)

\* processModuleStatuses(): LED colour, white backup and overall status
processModuleStatuses(mods, st) ==
    IF sacnErrored(mods)
    THEN [st EXCEPT !.color = "E", !.overallStatus = "errored"]
    ELSE IF criticalErrored(mods)
    THEN [color |-> "C", overallStatus |-> "white",
          whiteBackupMode |-> setWhiteBackupMode(st.whiteBackupMode, TRUE)]
    ELSE LET off == [st EXCEPT !.whiteBackupMode = setWhiteBackupMode(@, FALSE)]
         IN  IF degradedOrOffline(mods)
             THEN [off EXCEPT !.color = "F", !.overallStatus = "degraded"]
             ELSE networkRules(mods, off)

----------------------------------------------------------------------------
(* AttitudeSACN *)

\* universes of the transmitter in the model (the program initialises eight)
NumUniverses == 2

\* slots of a universe in the model (512 in the program)
NumSlots == 4

\* a universe of white
White == [c \in 1..NumSlots |-> 255]

\* variant: the value is not checked against its range
setAcceptsAnyValue(slots, u, c, v) ==
    IF u > 0 /\ u <= NumUniverses /\ c > 0 /\ c <= NumSlots
    THEN [slots EXCEPT ![u][c] = v]
    ELSE slots

\* set(u, c, v): out of range writes are ignored
set(slots, u, c, v) ==
    IF u > 0 /\ u <= NumUniverses /\ c > 0 /\ c <= NumSlots /\ v >= 0 /\ v <= 255
    THEN [slots EXCEPT ![u][c] = v]
    ELSE slots

\* variant: white backup mode does not touch the universes
processDMXSendsBuffers(slots, mode, failAt) ==
    [slotsDatas |-> slots,
     sent |-> [u \in 1..(IF failAt = 0 THEN NumUniverses ELSE failAt - 1) |->
                 [universe |-> u, slots |-> slots[u], whiteBackupMode |-> mode]],
     errored |-> failAt # 0]

\* processDMX(): the universes are sent in order; the send of universe failAt
\* throws (0: no send throws), which ends the frame
processDMX(slots, mode, failAt) ==
    LET reached == IF failAt = 0 THEN NumUniverses ELSE failAt
        filled == [u \in 1..NumUniverses |->
                     IF mode /\ u <= reached THEN White ELSE slots[u]]
    IN  [slotsDatas |-> filled,
         sent |-> [u \in 1..(IF failAt = 0 THEN NumUniverses ELSE failAt - 1) |->
                     [universe |-> u, slots |-> filled[u], whiteBackupMode |-> mode]],
         errored |-> failAt # 0]

----------------------------------------------------------------------------
(* AttitudeFixtureManager and the engine.  The shows of the model are static *)
(* shows of one colour: every pixel of the engine has that colour, so the   *)
(* pixel data of an engine is written as the sequence of its one colour,    *)
(* empty before the first run.                                              *)

\* fixtureCount of an engine on which setFixtureCount was never called
NoFixtureCount == 0 - 1

\* the engine a new pool entry is created with: a static gray show
NewEngine ==
    [colors |-> << Color(128, 128, 128) >>, fixtureCount |-> NoFixtureCount, pixelData |-> <<>>]

\* params[param] !== undefined
present(params, param) == param \in DOMAIN params

\* Math.round(a / b) and Math.ceil(a / b) of positive integers
roundDiv(a, b) == (2 * a + b) \div (2 * b)

\* updateFramesPerBeat: Math.round((1000 / (speed / 60)) / 25)
updateFramesPerBeat(speed) == roundDiv(2400, speed)

\* the beat and frame counters of an engine of the pool.  They are followed for
\* the shows that have a speed; until such a show configures the engine they
\* are those of the constructor
countersOf(engine) ==
    IF present(engine, "counters") THEN engine.counters
    ELSE [beatCounter |-> 1, frameCounter |-> 1]

\* incrementFrameCounter and incrementBeatCounter of a show without bounce
countersAfterRun(counters, framesPerBeat, colors) ==
    IF counters.frameCounter + 1 > framesPerBeat
    THEN [beatCounter |-> IF counters.beatCounter + 1 > Len(colors)
                          THEN 1 ELSE counters.beatCounter + 1,
          frameCounter |-> 1]
    ELSE [counters EXCEPT !.frameCounter = @ + 1]

\* engine.configure(show): the colours, and for a show with a speed the frames
\* per beat; the counters stay
configureShow(engine, show) ==
    IF present(show, "speed")
    THEN [colors |-> show.colors, fixtureCount |-> engine.fixtureCount,
          pixelData |-> engine.pixelData,
          framesPerBeat |-> updateFramesPerBeat(show.speed),
          counters |-> countersOf(engine)]
    ELSE [engine EXCEPT !.colors = show.colors]

RECURSIVE flatFrom(_, _)
flatFrom(inputArray, z) ==
    IF z > Len(inputArray) THEN <<>> ELSE inputArray[z].v \o flatFrom(inputArray, z + 1)

RECURSIVE uniqueFrom(_, _, _)
uniqueFrom(s, i, acc) ==
    IF i > Len(s) THEN acc
    ELSE uniqueFrom(s, i + 1,
            IF s[i] # 0 /\ ~(\E k \in 1..Len(acc) : acc[k] = s[i])
            THEN Append(acc, s[i]) ELSE acc)

\* the unique numbers of the schedule, groups flattened, zeros skipped
findUniqueNumbers(inputArray) == uniqueFrom(flatFrom(inputArray, 1), 1, <<>>)

showIdsOf(instances) == { instances[i].showId : i \in 1..Len(instances) }

RECURSIVE addMissing(_, _, _, _)
addMissing(instances, uniqueShowIds, i, showMap) ==
    IF i > Len(uniqueShowIds) THEN instances
    ELSE addMissing(
            IF uniqueShowIds[i] \notin showMap
            THEN Append(instances, [showId |-> uniqueShowIds[i], engine |-> NewEngine])
            ELSE instances,
            uniqueShowIds, i + 1, showMap)

\* variant: every entry of the pool is created anew
generateEngineInstancesAnew(instances, uniqueShowIds) ==
    addMissing(<< >>, uniqueShowIds, 1, {})

\* variant: no entry of the pool is ever removed
generateEngineInstancesKeepsAll(instances, uniqueShowIds) ==
    addMissing(instances, uniqueShowIds, 1, showIdsOf(instances))

\* generateEngineInstances(): drop the entries not scheduled, add the missing
generateEngineInstances(instances, uniqueShowIds) ==
    LET uniqueIdSet == { uniqueShowIds[i] : i \in 1..Len(uniqueShowIds) }
        kept == SelectSeq(instances, LAMBDA e : e.showId \in uniqueIdSet)
    IN  addMissing(kept, uniqueShowIds, 1, showIdsOf(instances))

\* index of the show with this id, 0 when there is none
findShow(shows, id) ==
    IF \E k \in 1..Len(shows) : shows[k].id = id
    THEN CHOOSE k \in 1..Len(shows) :
            shows[k].id = id /\ \A j \in 1..(k - 1) : shows[j].id # id
    ELSE 0

\* engine.run() of a static show
run(engine) ==
    LET counted == IF present(engine, "counters")
                   THEN [engine EXCEPT !.counters =
                            countersAfterRun(@, engine.framesPerBeat, engine.colors)]
                   ELSE engine
    IN  [counted EXCEPT !.pixelData = << engine.colors[1] >>]

\* processEngineInstances() from entry i on.  A show of engine version 2A
\* configures the engine (which throws on invalid parameters); another show is
\* translated, and the manager reports degraded whether or not that succeeds.
RECURSIVE processEngineInstancesFrom(_, _, _, _)
processEngineInstancesFrom(instances, i, shows, events) ==
    IF i > Len(instances)
    THEN [instances |-> instances, events |-> events, threw |-> FALSE]
    ELSE LET k == findShow(shows, instances[i].showId)
             show == shows[k]
             engine == instances[i].engine
             configured == configureShow(engine, show)
         IN  IF k = 0 \/ (show.engineVersion = "2A" /\ ~show.valid)
             THEN [instances |-> instances, events |-> events, threw |-> TRUE]
             ELSE IF show.engineVersion = "2A"
             THEN processEngineInstancesFrom(
                     [instances EXCEPT ![i].engine = run(configured)], i + 1, shows, events)
             ELSE processEngineInstancesFrom(
                     [instances EXCEPT ![i].engine =
                         run(IF show.valid THEN configured ELSE engine)],
                     i + 1, shows, Append(events, "degraded"))

processEngineInstances(instances, shows) ==
    processEngineInstancesFrom(instances, 1, shows, <<>>)

\* index of the fixture type with this id, 0 when there is none
findFixtureType(fixtureTypes, id) ==
    IF \E k \in 1..Len(fixtureTypes) : fixtureTypes[k].id = id
    THEN CHOOSE k \in 1..Len(fixtureTypes) :
            fixtureTypes[k].id = id /\ \A j \in 1..(k - 1) : fixtureTypes[j].id # id
    ELSE 0

\* the patch entries of one fixture (the channels of the fixture types of the
\* model are a multiple of their segments)
segmentsOf(thisFixture, thisFixtureType) ==
    LET channelsPerSegment ==
            IF thisFixtureType.segments # 0
            THEN thisFixtureType.channels \div thisFixtureType.segments
            ELSE thisFixtureType.channels
        segment(i) ==
            [universe |-> thisFixture.universe,
             startAddress |-> thisFixture.startAddress + (channelsPerSegment * i),
             colorMode |-> thisFixtureType.color]
    IN  IF thisFixtureType.multicountonefixture
        THEN [i \in 1..thisFixture.quantity |-> segment(i - 1)]
        ELSE IF thisFixtureType.segments > 1
        THEN [i \in 1..thisFixtureType.segments |-> segment(i - 1)]
        ELSE << segment(0) >>

\* calculateAllFixtureSegments(): throws on a fixture of an unknown type
RECURSIVE calculateAllFixtureSegmentsFrom(_, _, _, _)
calculateAllFixtureSegmentsFrom(fixturesList, i, fixtureTypes, resultList) ==
    IF i > Len(fixturesList) THEN [segments |-> resultList, threw |-> FALSE]
    ELSE LET k == findFixtureType(fixtureTypes, fixturesList[i].type)
         IN  IF k = 0 THEN [segments |-> resultList, threw |-> TRUE]
             ELSE calculateAllFixtureSegmentsFrom(fixturesList, i + 1, fixtureTypes,
                     resultList \o segmentsOf(fixturesList[i], fixtureTypes[k]))

calculateAllFixtureSegments(fixturesList, fixtureTypes) ==
    calculateAllFixtureSegmentsFrom(fixturesList, 1, fixtureTypes, <<>>)

Min(a, b) == IF a < b THEN a ELSE b
calculateWhiteFromRGB(rgb) == Min(rgb.red, Min(rgb.green, rgb.blue))

\* variant: a white value is written for the segments of every colour mode
RECURSIVE outputSegmentsFromAlwaysWhite(_, _, _, _)
outputSegmentsFromAlwaysWhite(slots, fixtureSegments, i, thisFixtureColor) ==
    IF i > Len(fixtureSegments) THEN [slots |-> slots, threw |-> FALSE]
    ELSE LET seg == fixtureSegments[i]
             r == set(slots, seg.universe, seg.startAddress, thisFixtureColor.red)
             g == set(r, seg.universe, seg.startAddress + 1, thisFixtureColor.green)
             b == set(g, seg.universe, seg.startAddress + 2, thisFixtureColor.blue)
             w == set(b, seg.universe, seg.startAddress + 3,
                      calculateWhiteFromRGB(thisFixtureColor))
         IN  IF seg.colorMode \in { "RGB", "RGBW" }
             THEN outputSegmentsFromAlwaysWhite(w, fixtureSegments, i + 1, thisFixtureColor)
             ELSE [slots |-> slots, threw |-> TRUE]

\* the DMX values of the segments from segment i on; an unknown colour mode
\* throws, which ends the loop
RECURSIVE outputSegmentsFrom(_, _, _, _)
outputSegmentsFrom(slots, fixtureSegments, i, thisFixtureColor) ==
    IF i > Len(fixtureSegments) THEN [slots |-> slots, threw |-> FALSE]
    ELSE LET seg == fixtureSegments[i]
             r == set(slots, seg.universe, seg.startAddress, thisFixtureColor.red)
             g == set(r, seg.universe, seg.startAddress + 1, thisFixtureColor.green)
             b == set(g, seg.universe, seg.startAddress + 2, thisFixtureColor.blue)
             w == set(b, seg.universe, seg.startAddress + 3,
                      calculateWhiteFromRGB(thisFixtureColor))
         IN  IF seg.colorMode = "RGB"
             THEN outputSegmentsFrom(b, fixtureSegments, i + 1, thisFixtureColor)
             ELSE IF seg.colorMode = "RGBW"
             THEN outputSegmentsFrom(w, fixtureSegments, i + 1, thisFixtureColor)
             ELSE [slots |-> slots, threw |-> TRUE]

\* index of the pool entry of this show id, 0 when there is none
findEngineInstance(instances, showId) ==
    IF \E k \in 1..Len(instances) : instances[k].showId = showId
    THEN CHOOSE k \in 1..Len(instances) :
            instances[k].showId = showId /\ \A j \in 1..(k - 1) : instances[j].showId # showId
    ELSE 0

\* applyShowToFixtures(showId, fixtures) on the patch state st, a record of the
\* pool, the universes and the events emitted so far
applyShowToFixtures(st, showId, fixtures, fixtureTypes) ==
    LET e == findEngineInstance(st.instances, showId)
        calc == calculateAllFixtureSegments(fixtures, fixtureTypes)
        counted == IF showId # 0
                   THEN [st.instances EXCEPT ![e].engine.fixtureCount = Len(calc.segments)]
                   ELSE st.instances
        thisFixtureColor == IF showId # 0 THEN counted[e].engine.pixelData[1]
                            ELSE Color(0, 0, 0)
        out == outputSegmentsFrom(st.slots, calc.segments, 1, thisFixtureColor)
    IN  IF Len(fixtures) = 0 THEN [st EXCEPT !.threw = FALSE]
        ELSE IF (e = 0 /\ showId # 0) \/ calc.threw THEN [st EXCEPT !.threw = TRUE]
        ELSE [instances |-> counted, slots |-> out.slots,
              events |-> IF out.threw THEN Append(st.events, "degraded") ELSE st.events,
              threw |-> FALSE]

fixturesOfZone(fixtures, zoneNumber) ==
    SelectSeq(fixtures, LAMBDA itm : itm.zoneNumber = zoneNumber)
fixturesOfGroup(fixtures, zoneNumber, groupNumber) ==
    SelectSeq(fixtures, LAMBDA itm : itm.zoneNumber = zoneNumber /\ itm.groupNumber = groupNumber)

\* a failure is caught and reported as degraded
caught(st) ==
    IF st.threw THEN [st EXCEPT !.events = Append(@, "degraded"), !.threw = FALSE] ELSE st

\* the groups of a zone whose slot of the schedule is an array
RECURSIVE groupsFrom(_, _, _, _, _, _)
groupsFrom(st, index, groupIndex, groups, currentZoneSchedule, cfg) ==
    IF groupIndex > groups THEN st
    ELSE LET currentGroupShowId ==
                 IF groupIndex <= Len(currentZoneSchedule.v)
                 THEN currentZoneSchedule.v[groupIndex] ELSE 0
         IN  groupsFrom(
                 caught(applyShowToFixtures(st, currentGroupShowId,
                            fixturesOfGroup(cfg.fixtures, index, groupIndex), cfg.fixtureTypes)),
                 index, groupIndex + 1, groups, currentZoneSchedule, cfg)

\* variant: a zone that fails ends the patching of the tick
RECURSIVE zonesFromStopsAtFailure(_, _, _, _)
zonesFromStopsAtFailure(st, index, sched, cfg) ==
    IF index > Len(cfg.zones) THEN st
    ELSE LET currentZoneSchedule == IF index <= Len(sched) THEN sched[index] ELSE Sc(0)
             zone == cfg.zones[index]
             done ==
                IF currentZoneSchedule.arr /\ Len(currentZoneSchedule.v) > 0
                THEN IF zone.groups > 0
                     THEN groupsFrom(st, index, 1, zone.groups, currentZoneSchedule, cfg)
                     ELSE [st EXCEPT !.threw = TRUE]
                ELSE applyShowToFixtures(st,
                        IF currentZoneSchedule.arr THEN 0 ELSE Num(currentZoneSchedule),
                        fixturesOfZone(cfg.fixtures, index), cfg.fixtureTypes)
         IN  IF done.threw THEN caught(done)
             ELSE zonesFromStopsAtFailure(done, index + 1, sched, cfg)

\* processPatchAndOutputShows() from zone `index` on (zones are numbered from 1)
RECURSIVE zonesFrom(_, _, _, _)
zonesFrom(st, index, sched, cfg) ==
    IF index > Len(cfg.zones) THEN st
    ELSE LET currentZoneSchedule == IF index <= Len(sched) THEN sched[index] ELSE Sc(0)
             zone == cfg.zones[index]
             done ==
                IF currentZoneSchedule.arr /\ Len(currentZoneSchedule.v) > 0
                THEN IF zone.groups > 0
                     THEN groupsFrom(st, index, 1, zone.groups, currentZoneSchedule, cfg)
                     ELSE [st EXCEPT !.threw = TRUE]
                ELSE applyShowToFixtures(st,
                        IF currentZoneSchedule.arr THEN 0 ELSE Num(currentZoneSchedule),
                        fixturesOfZone(cfg.fixtures, index), cfg.fixtureTypes)
         IN  zonesFrom(caught(done), index + 1, sched, cfg)

processPatchAndOutputShows(instances, slots, events, sched, cfg) ==
    zonesFrom([instances |-> instances, slots |-> slots, events |-> events, threw |-> FALSE],
              1, sched, cfg)

\* the loops of an unassigned device: set(u, c, 255) for every channel of
\* every universe, from channel c of universe u on
RECURSIVE setEverythingToWhite(_, _, _)
setEverythingToWhite(slots, u, c) ==
    IF u > NumUniverses THEN slots
    ELSE IF c > NumSlots THEN setEverythingToWhite(slots, u + 1, 1)
    ELSE setEverythingToWhite(set(slots, u, c, 255), u, c + 1)

\* ConfigManager.getAssignedToLocation()
getAssignedToLocation(cfg) == cfg.assignedToLocation

\* variant: an unassigned device leaves the universes as they are
processFixturesKeepsUniverses(cfg, finalSchedule, sched, instances, slots) ==
    IF getAssignedToLocation(cfg)
    THEN LET uniqueShowIds == findUniqueNumbers(finalSchedule)
             pool == generateEngineInstances(instances, uniqueShowIds)
             eng == processEngineInstances(pool, cfg.shows)
             patch == processPatchAndOutputShows(eng.instances, slots, eng.events,
                                                 finalSchedule, cfg)
         IN  IF eng.threw
             THEN [schedule |-> finalSchedule, engineInstances |-> eng.instances,
                   slotsDatas |-> slots, events |-> Append(eng.events, "errored"),
                   threw |-> TRUE]
             ELSE [schedule |-> finalSchedule, engineInstances |-> patch.instances,
                   slotsDatas |-> patch.slots, events |-> Append(patch.events, "operational"),
                   threw |-> FALSE]
    ELSE [schedule |-> sched, engineInstances |-> instances,
          slotsDatas |-> slots, events |-> << "operational" >>, threw |-> FALSE]

\* processFixtures(): the schedule, the pool and the universes after the tick,
\* and the statuses the tick emits
processFixtures(cfg, finalSchedule, sched, instances, slots) ==
    IF getAssignedToLocation(cfg)
    THEN LET uniqueShowIds == findUniqueNumbers(finalSchedule)
             pool == generateEngineInstances(instances, uniqueShowIds)
             eng == processEngineInstances(pool, cfg.shows)
             patch == processPatchAndOutputShows(eng.instances, slots, eng.events,
                                                 finalSchedule, cfg)
         IN  IF eng.threw
             THEN [schedule |-> finalSchedule, engineInstances |-> eng.instances,
                   slotsDatas |-> slots, events |-> Append(eng.events, "errored"),
                   threw |-> TRUE]
             ELSE [schedule |-> finalSchedule, engineInstances |-> patch.instances,
                   slotsDatas |-> patch.slots, events |-> Append(patch.events, "operational"),
                   threw |-> FALSE]
    ELSE [schedule |-> sched, engineInstances |-> instances,
          slotsDatas |-> setEverythingToWhite(slots, 1, 1),
          events |-> << "operational" >>, threw |-> FALSE]

----------------------------------------------------------------------------
(* Initial state: after the constructors and init() *)

----------------------------------------------------------------------------
(* AttitudeEngine3: the counters, the seed of the random direction and the   *)
(* pixel data of a static show.  The shows of the model are static shows     *)
(* without transition (transitionWidth 0), so that no pixel is faded.        *)

\* the number of pixels of the canvas (5000 in the program)
RETURN_DATA_ARRAY_LENGTH == 2

SPEED_MIN_BPM == 10
SPEED_MAX_BPM == 180
SIZE_MIN == 1
SIZE_MAX == 200
SPLITS_MIN == 1
SPLITS_MAX == 10
MAX_COLORS_COUNT == 25

SHOWTYPES == { "Static", "All", "Chase", "Pulse" }

DIRECTIONS ==
    { "Left to Right", "Right to Left", "Middle to Ends", "Ends to Middle", "Random" }

ceilDiv(a, b) == (a + b - 1) \div b

\* validateParams: every parameter that is present is in its domain
validateParams(params) ==
    /\ present(params, "showType") => params.showType \in SHOWTYPES
    /\ present(params, "direction") => params.direction \in DIRECTIONS
    /\ present(params, "speed") =>
          params.speed >= SPEED_MIN_BPM /\ params.speed <= SPEED_MAX_BPM
    /\ present(params, "size") => params.size >= SIZE_MIN /\ params.size <= SIZE_MAX
    /\ present(params, "splits") =>
          params.splits >= SPLITS_MIN /\ params.splits <= SPLITS_MAX
    /\ present(params, "bounce") => params.bounce \in BOOLEAN
    /\ present(params, "colors") =>
          Len(params.colors) # 0 /\ Len(params.colors) <= MAX_COLORS_COUNT

\* generateRandomNumberSeed(size, max): the first `size` numbers of a shuffle of
\* 0..max; every arrangement can come out of Math.random()
generateRandomNumberSeed(size, max) ==
    { seed \in [1..size -> 0..max] :
        \A i \in 1..size : \A j \in 1..size : seed[i] = seed[j] => i = j }

\* an engine that was not constructed yet
NoEngine == [constructed |-> FALSE]

\* new AttitudeEngine3(params) with the seed the shuffle produced
newAttitudeEngine3(params, seed) ==
    [constructed |-> TRUE, config |-> params, beatCounter |-> 1, frameCounter |-> 1,
     framesPerBeat |-> updateFramesPerBeat(params.speed), pixelData |-> << >>,
     isInReverse |-> FALSE, randomnessSeed |-> seed]

\* Object.assign(this.config, params)
assign(cfg, params) ==
    LET merged(param) == IF present(params, param) THEN params[param] ELSE cfg[param]
    IN  [showType |-> merged("showType"), direction |-> merged("direction"),
         speed |-> merged("speed"), size |-> merged("size"),
         splits |-> merged("splits"), transition |-> merged("transition"),
         transitionWidth |-> merged("transitionWidth"), bounce |-> merged("bounce"),
         colors |-> merged("colors")]

\* Object.assign before validateParams
setParamsAssignsFirst(e, params) ==
    [threw |-> ~validateParams(params),
     engine |-> [e EXCEPT !.config = assign(e.config, params)]]

\* setParams(params): validateParams throws before anything is assigned
setParams(e, params) ==
    IF validateParams(params)
    THEN [threw |-> FALSE, engine |-> [e EXCEPT !.config = assign(e.config, params)]]
    ELSE [threw |-> TRUE, engine |-> e]

\* configure(params): the frames per beat follow a speed that is present
configure(e, params) ==
    LET done == setParams(e, params)
    IN  IF done.threw \/ ~present(params, "speed")
        THEN done
        ELSE [done EXCEPT !.engine.framesPerBeat =
                             updateFramesPerBeat(done.engine.config.speed)]

incrementBeatCounter(e) ==
    IF e.config.bounce
    THEN LET moved == IF ~e.isInReverse
                      THEN [e EXCEPT !.beatCounter = e.beatCounter + 1, !.frameCounter = 1]
                      ELSE [e EXCEPT !.beatCounter = e.beatCounter - 1,
                                     !.frameCounter = e.framesPerBeat]
             turned == IF moved.beatCounter > Len(moved.config.colors)
                       THEN [moved EXCEPT !.isInReverse = TRUE]
                       ELSE moved
         IN  IF turned.beatCounter < 1
             THEN [turned EXCEPT !.isInReverse = FALSE]
             ELSE turned
    ELSE [e EXCEPT !.beatCounter = IF e.beatCounter + 1 > Len(e.config.colors)
                                   THEN 1 ELSE e.beatCounter + 1,
                   !.frameCounter = 1,
                   !.isInReverse = FALSE]

incrementFrameCounter(e) ==
    IF e.isInReverse
    THEN IF e.frameCounter - 1 < 1
         THEN incrementBeatCounter([e EXCEPT !.frameCounter = e.frameCounter - 1])
         ELSE [e EXCEPT !.frameCounter = e.frameCounter - 1]
    ELSE IF e.frameCounter + 1 > e.framesPerBeat
         THEN incrementBeatCounter([e EXCEPT !.frameCounter = e.frameCounter + 1])
         ELSE [e EXCEPT !.frameCounter = e.frameCounter + 1]

\* array[i] of JavaScript (i counts from 0): undefined beyond the end
at(array, i) == IF i < Len(array) THEN array[i + 1] ELSE Undefined

\* calculateColorBase of a static show without transition
calculateColorBase(params) ==
    LET pixelsPerColor == ceilDiv(RETURN_DATA_ARRAY_LENGTH, Len(params.colors))
    IN  [p \in 1..(pixelsPerColor * Len(params.colors)) |->
            params.colors[((p - 1) \div pixelsPerColor) + 1]]

\* expandOrTrimPixelDataLength: repeat the array up to the length of the canvas
expandOrTrimPixelDataLength(pixelData) ==
    [p \in 1..RETURN_DATA_ARRAY_LENGTH |-> pixelData[((p - 1) % Len(pixelData)) + 1]]

\* every other item of the array, from the first on
everyOtherItem(pixelData) ==
    [p \in 1..((Len(pixelData) + 1) \div 2) |-> pixelData[2 * p - 1]]

processDirections(direction, randomnessSeed, pixelData) ==
    IF direction = "Left to Right" THEN pixelData
    ELSE IF direction = "Right to Left" THEN reverse(pixelData)
    ELSE IF direction = "Middle to Ends"
    THEN reverse(everyOtherItem(pixelData)) \o everyOtherItem(pixelData)
    ELSE IF direction = "Ends to Middle"
    THEN everyOtherItem(pixelData) \o reverse(everyOtherItem(pixelData))
    ELSE [i \in 1..RETURN_DATA_ARRAY_LENGTH |-> at(pixelData, randomnessSeed[i])]

\* splitArrayByNumberOfItems(array, items)
splitArrayByNumberOfItems(array, items) ==
    LET resultingItemsLength == roundDiv(Len(array), items)
        skipPerSection == roundDiv(Len(array), resultingItemsLength)
    IN  [p \in 1..ceilDiv(Len(array), skipPerSection) |->
            array[(p - 1) * skipPerSection + 1]]

processSplits(pixelData, splits) ==
    expandOrTrimPixelDataLength(splitArrayByNumberOfItems(pixelData, splits))

\* calculateStaticEffect: the canvas before and after processDirections, and
\* the pixel data at the end
calculateStaticEffect(e) ==
    LET canvas == expandOrTrimPixelDataLength(calculateColorBase(e.config))
        directed == processDirections(e.config.direction, e.randomnessSeed, canvas)
    IN  [canvas |-> canvas, directed |-> directed,
         pixelData |-> processSplits(directed, e.config.splits)]

\* RETURN_DATA_ARRAY_LENGTH of the program.  The All effect is computed on the
\* canvas of the program, because it rounds its splits against this number.
FULL_DATA_ARRAY_LENGTH == 5000

\* calculateAllEffect of a show without transition: the colour base (indexes
\* from 0), flipped and circulated, is sampled once per split, and every pixel of
\* the canvas gets the sample of its split
calculateAllEffect(e) ==
    LET colors == e.config.colors
        pixelsPerColor == ceilDiv(FULL_DATA_ARRAY_LENGTH * e.config.size, 100)
        length == pixelsPerColor * Len(colors)
        base(i) == colors[(i \div pixelsPerColor) + 1]
        flipped(i) == base(length - 1 - i)
        distanceToCirculate ==
            roundDiv(pixelsPerColor * e.frameCounter, e.framesPerBeat)
                + pixelsPerColor * (e.beatCounter - 1)
        shift == distanceToCirculate % length
        circulated(i) == IF i < length THEN flipped((i - shift) % length) ELSE Undefined
        pixelsPerSplit == roundDiv(FULL_DATA_ARRAY_LENGTH, e.config.splits)
        splitsOnAllColorsList ==
            [split \in 1..e.config.splits |-> circulated(pixelsPerSplit * (split - 1))]
    IN  [i \in 1..FULL_DATA_ARRAY_LENGTH |->
            at(splitsOnAllColorsList, (i - 1) \div pixelsPerSplit)]

\* run(): the engine after the call (engine3 only; the engines of the pool are
\* run by run(engine))
runEngine3(e) ==
    LET counted == incrementFrameCounter(e)
    IN  [counted EXCEPT !.pixelData =
            IF counted.config.showType = "All"
            THEN calculateAllEffect(counted)
            ELSE calculateStaticEffect(counted).pixelData]

----------------------------------------------------------------------------
(* NetworkModule *)

MAX_ERROR_COUNT == 5
MAX_MESSAGES_TO_RESEND_AT_ONCE == 250

\* the most data messages enqueued, requests in flight and requests started
MaxMessages == 2
MaxInFlight == 2
MaxRequests == 7

\* a log entry in the queue; the data messages are 1..MaxMessages
Log == 0

\* enqueueData(type, data)
enqueueData(n, message) == [n EXCEPT !.queue = Append(@, message)]

\* grabAndRemoveFirstItems(arr, count): the items grabbed and the array left
grabAndRemoveFirstItems(arr, count) ==
    IF count >= Len(arr)
    THEN [items |-> arr, arr |-> << >>]
    ELSE [items |-> SubSeq(arr, 1, count), arr |-> SubSeq(arr, count + 1, Len(arr))]

\* savePayloadToFile(payload); a write that fails is logged and the file keeps
\* what it had
savePayloadToFile(n, payload, writeOk) ==
    IF writeOk
    THEN [n EXCEPT !.file = @ \o payload]
    ELSE enqueueData(n, Log)

\* loadMissedNetworkMessages()
loadMissedNetworkMessages(n) ==
    IF Len(n.file) = 0
    THEN [n EXCEPT !.loadMissedNetworkMessagesFlag = FALSE]
    ELSE LET grabbed == grabAndRemoveFirstItems(n.file, MAX_MESSAGES_TO_RESEND_AT_ONCE)
         IN  [n EXCEPT !.queue = @ \o grabbed.items, !.file = grabbed.arr]

\* performNetworkRequest() up to the call of fetch: the payload is the queue,
\* the missed messages are loaded behind it, the request is in flight
performNetworkRequest(n) ==
    LET payload == n.queue
        spliced == [n EXCEPT !.queue = << >>]
        loaded  == IF n.loadMissedNetworkMessagesFlag
                   THEN loadMissedNetworkMessages(spliced)
                   ELSE spliced
    IN  [loaded EXCEPT !.inFlight = Append(@, payload), !.requests = @ + 1]

\* the sequence without its i-th item
without(seq, i) == SubSeq(seq, 1, i - 1) \o SubSeq(seq, i + 1, Len(seq))

\* the first .then of the fetch: the response is ok
requestSucceeded(n, payload) ==
    [n EXCEPT !.loadMissedNetworkMessagesFlag =
                  IF n.errorCounter > MAX_ERROR_COUNT THEN TRUE ELSE @,
              !.errorCounter = 0,
              !.delivered = @ \cup { payload[k] : k \in 1..Len(payload) }]

\* the .catch of the fetch: the error is logged (the log is queued), counted,
\* and the payload goes to the file after more than MAX_ERROR_COUNT errors,
\* to the front of the queue until then
requestFailed(n, payload, writeOk) ==
    LET logged  == enqueueData(n, Log)
        counted == [logged EXCEPT !.errorCounter = @ + 1]
    IN  IF counted.errorCounter > MAX_ERROR_COUNT
        THEN savePayloadToFile(counted, payload, writeOk)
        ELSE [counted EXCEPT !.queue = payload \o @]

Observed(op, failed, layered) == [op |-> op, failed |-> failed, layered |-> layered]

\* the Scheduler after construction, in a process started at one of `bootTimes`
SchedInitAt(bootTimes) ==
    /\ config = EmptyConfig
    /\ clock = 0
    /\ bootTime \in bootTimes
    /\ mostRecentPacketFromEachSense = << >>
    /\ received = [object |-> Packet(Undefined, Undefined, Undefined, Undefined, Undefined,
                                     Undefined),
                   senseData |-> << >>]
    /\ now = Calendar(1, 1, 1, 1, 1)
    /\ processedShowIds =
          [defaultWeeklySchedule |-> Zeros, customScheduleBlocks |-> Zeros,
           overrides |-> Zeros, webOverrides |-> Zeros, final |-> Zeros]
    /\ activePulseOverrides = << >>
    /\ degraded = FALSE
    /\ schedulerStatus = "operational"
    /\ last = Observed("init", {}, {})

SchedInit == SchedInitAt(BootTimes)

FixInit ==
    /\ schedule = Zeros
    /\ engineInstances = << >>
    /\ engine3 = NoEngine

SacnInit ==
    /\ slotsDatas = [u \in 1..NumUniverses |-> White]
    /\ whiteBackupMode = FALSE
    /\ errored = FALSE
    /\ sent = [buffers |-> [u \in 1..NumUniverses |-> White], frames |-> << >>]

\* armedSince.reported: the modules whose errored status armed white backup
\* and that have not reported another status since; armedSince.tracked: those
\* of them that have not been marked unresponsive since either
SupInit ==
    /\ modules = << >>
    /\ overallStatus = "initializing"
    /\ color = "A"
    /\ armedSince = [reported |-> {}, tracked |-> {}]

\* NetworkModule after its constructor and init(): the four log entries of
\* the start are queued, the missed messages are assumed to be on file
NetInit ==
    network = [queue |-> <<Log, Log, Log, Log>>,
               errorCounter |-> 0,
               file |-> << >>,
               loadMissedNetworkMessagesFlag |-> TRUE,
               inFlight |-> << >>,
               requests |-> 0,
               enqueued |-> 0,
               delivered |-> {}]

Init == SchedInit /\ FixInit /\ SacnInit /\ SupInit /\ NetInit

\* armedSince after module `name` emitted these statuses
recovered(armed, name, statuses) ==
    IF \E i \in 1..Len(statuses) : statuses[i] # "errored"
    THEN [reported |-> armed.reported \ {name}, tracked |-> armed.tracked \ {name}]
    ELSE armed

\* the tracker receives the events that module `name` emits at this time
emit(name, statuses) ==
    /\ modules' = emitAll(modules, name, statuses, 1, clock)
    /\ armedSince' = recovered(armedSince, name, statuses)

----------------------------------------------------------------------------
(* Scheduler actions *)

\* the Scheduler state after processSchedule() with sensor cache `cache`, in a
\* handler of module `name` that reports these statuses afterwards
runProcessScheduleThen(cache, name, statuses) ==
    \E r \in { processSchedule(config, cache, activePulseOverrides, degraded,
                                updateCurrentTime(bootTime, clock), clock) } :
        /\ now' = updateCurrentTime(bootTime, clock)
        /\ config' = configAfterLayers(config, updateCurrentTime(bootTime, clock))
        /\ processedShowIds' = r.processedShowIds
        /\ activePulseOverrides' = r.pulses
        /\ degraded' = r.degraded
        /\ schedulerStatus' = r.status
        /\ modules' = emitAll(emitAll(modules, "AttitudeScheduler", << r.status >>, 1, clock),
                              name, statuses, 1, clock)
        /\ armedSince' = recovered(armedSince, "AttitudeScheduler", << r.status >>)
        /\ last' = Observed("processSchedule", r.failed, r.layered)

\* the 1 s interval of the Scheduler
SchedulerTick ==
    /\ runProcessScheduleThen(mostRecentPacketFromEachSense, "AttitudeScheduler", << >>)
    /\ UNCHANGED <<clock, bootTime, mostRecentPacketFromEachSense, received>>
    /\ UNCHANGED <<netVars, fixVars, sacnVars, overallStatus, color>>

\* the places of processSchedule() at which an exception reaches its catch:
\* before the layers are processed, or after the four of them
ScheduleThrowsAt == { "updateScheduleConfigration", "layerScheduleToCreateFinal" }

\* the 1 s interval of the Scheduler when processSchedule() throws: the catch
\* reports errored, and what the tick assigned before the throw stays
processScheduleThrows(throwsAt) ==
    \E throws \in throwsAt :
        \E r \in { processSchedule(config, mostRecentPacketFromEachSense,
                                    activePulseOverrides, degraded,
                                    updateCurrentTime(bootTime, clock), clock) } :
            /\ IF throws = "updateScheduleConfigration"
               THEN UNCHANGED <<config, now, processedShowIds, activePulseOverrides,
                                degraded>>
               ELSE /\ now' = updateCurrentTime(bootTime, clock)
                    /\ config' = configAfterLayers(config,
                                                   updateCurrentTime(bootTime, clock))
                    /\ processedShowIds' =
                           [r.processedShowIds EXCEPT !.final = processedShowIds.final]
                    /\ activePulseOverrides' = r.pulses
                    /\ degraded' = r.degraded
            /\ schedulerStatus' = "errored"
            /\ emit("AttitudeScheduler", << "errored" >>)
            /\ last' = Observed("processSchedule", { "processSchedule" }, {})
            /\ UNCHANGED <<clock, bootTime, mostRecentPacketFromEachSense, received>>
            /\ UNCHANGED <<netVars, fixVars, sacnVars, overallStatus, color>>

SchedulerTickThrows == processScheduleThrows(ScheduleThrowsAt)

\* a UDP packet arrives, and the senseData event is emitted before the packet
\* is put into the map of the most recent packets
receivedUDPEmitsBeforeCaching(packets) ==
    \E object \in packets :
        \E r \in { handleNewSenseData(mostRecentPacketFromEachSense, object) } :
            /\ mostRecentPacketFromEachSense' = r.cache
            /\ received' = [object |-> object, senseData |-> r.senseData]
            /\ IF r.senseData # << >>
               THEN runProcessScheduleThen(mostRecentPacketFromEachSense,
                                           "AttitudeSenseManager", r.events)
               ELSE /\ emit("AttitudeSenseManager", r.events)
                    /\ last' = Observed("idle", {}, {})
                    /\ UNCHANGED <<config, now, processedShowIds, activePulseOverrides,
                                   degraded, schedulerStatus>>
            /\ UNCHANGED <<clock, bootTime>>
            /\ UNCHANGED <<netVars, fixVars, sacnVars, overallStatus, color>>

\* a UDP packet arrives: handleNewSenseData, and for each senseData event the
\* senseData listener of the Scheduler, which processes the schedule
receivedUDP(packets) ==
    \E object \in packets :
        \E r \in { handleNewSenseData(mostRecentPacketFromEachSense, object) } :
            /\ mostRecentPacketFromEachSense' = r.cache
            /\ received' = [object |-> object, senseData |-> r.senseData]
            /\ IF r.senseData # << >>
               THEN runProcessScheduleThen(r.cache, "AttitudeSenseManager", r.events)
               ELSE /\ emit("AttitudeSenseManager", r.events)
                    /\ last' = Observed("idle", {}, {})
                    /\ UNCHANGED <<config, now, processedShowIds, activePulseOverrides,
                                   degraded, schedulerStatus>>
            /\ UNCHANGED <<clock, bootTime>>
            /\ UNCHANGED <<netVars, fixVars, sacnVars, overallStatus, color>>

\* the valid packets of the senses of the configurations
HandleNewSenseData == receivedUDP(SensePackets)

\* ConfigManager.update(newData) with a full configuration from the server
ConfigUpdate(configs) ==
    \E c \in configs :
        /\ config' = c
        /\ last' = Observed("idle", {}, {})
        /\ UNCHANGED <<clock, bootTime, mostRecentPacketFromEachSense, received, now, processedShowIds,
                       activePulseOverrides, degraded, schedulerStatus>>
        /\ UNCHANGED <<netVars, fixVars, sacnVars, supVars>>

\* one second passes
Elapse ==
    /\ clock + 1000 <= MaxSeconds * 1000
    /\ clock' = clock + 1000
    /\ last' = Observed("idle", {}, {})
    /\ UNCHANGED <<config, bootTime, mostRecentPacketFromEachSense, received, now, processedShowIds,
                   activePulseOverrides, degraded, schedulerStatus>>
    /\ UNCHANGED <<netVars, fixVars, sacnVars, supVars>>

----------------------------------------------------------------------------
(* Fixture manager, sACN and Supervisor actions *)

\* the 25 ms interval of the fixture manager
FixtureTick ==
    \E r \in { processFixtures(config, processedShowIds.final, schedule, engineInstances,
                                slotsDatas) } :
        /\ schedule' = r.schedule
        /\ engineInstances' = r.engineInstances
        /\ slotsDatas' = r.slotsDatas
        /\ emit("AttitudeFixtureManager", r.events)
        /\ last' = [op |-> "processFixtures",
                    failed |-> IF r.threw THEN { "processFixtures" } ELSE {},
                    layered |-> {}, events |-> r.events]
        /\ UNCHANGED <<config, clock, bootTime, mostRecentPacketFromEachSense, received, now,
                       processedShowIds, activePulseOverrides, degraded, schedulerStatus>>
        /\ UNCHANGED <<netVars, engine3, whiteBackupMode, errored, sent, overallStatus, color>>

\* the 24 ms interval of the transmitter; the send of universe failAt throws
ProcessDMX ==
    \E failAt \in 0..NumUniverses :
        LET r == processDMX(slotsDatas, whiteBackupMode, failAt)
        IN  /\ slotsDatas' = r.slotsDatas
            /\ sent' = [buffers |-> slotsDatas, frames |-> r.sent]
            /\ errored' = r.errored
            /\ emit("AttitudeSACN", IF r.errored THEN << "errored" >> ELSE << >>)
            /\ last' = Observed("processDMX", IF r.errored THEN { "processDMX" } ELSE {}, {})
            /\ UNCHANGED <<config, clock, bootTime, mostRecentPacketFromEachSense, received, now,
                           processedShowIds, activePulseOverrides, degraded, schedulerStatus>>
            /\ UNCHANGED <<netVars, fixVars, whiteBackupMode, overallStatus, color>>

\* the 1 s interval of the transmitter: operational unless the last frame failed
FpsInterval ==
    /\ emit("AttitudeSACN", IF ~errored THEN << "operational" >> ELSE << >>)
    /\ last' = Observed("idle", {}, {})
    /\ UNCHANGED <<config, clock, bootTime, mostRecentPacketFromEachSense, received, now,
                   processedShowIds, activePulseOverrides, degraded, schedulerStatus>>
    /\ UNCHANGED <<netVars, fixVars, sacnVars, overallStatus, color>>

\* the universes, channels and values a caller passes to set(): around both
\* ends of each range
SetUniverses == { 0, 1, NumUniverses, NumUniverses + 1 }
SetChannels == { 0, 1, NumSlots, NumSlots + 1 }
SetValues == { 0 - 1, 0, 128, 255, 256 }

\* one call of set(u, c, v); last.call keeps its arguments
Set ==
    \E u \in SetUniverses, c \in SetChannels, v \in SetValues :
        /\ slotsDatas' = set(slotsDatas, u, c, v)
        /\ last' = [op |-> "set", failed |-> {}, layered |-> {}, call |-> <<u, c, v>>]
        /\ UNCHANGED <<config, clock, bootTime, mostRecentPacketFromEachSense, received, now,
                       processedShowIds, activePulseOverrides, degraded, schedulerStatus>>
        /\ UNCHANGED <<netVars, fixVars, whiteBackupMode, errored, sent, supVars>>

\* the modules whose errored status arms white backup
CriticalModules == { "AttitudeScheduler", "AttitudeFixtureManager" }

\* the modules the Supervisor consults, and the statuses they report
ModuleNames ==
    CriticalModules \cup { "AttitudeSACN", "ConfigManager", "StatusTracker", "NetworkModule" }
StatusesOf(name) ==
    IF name \in CriticalModules THEN { "operational", "degraded", "errored" }
    ELSE IF name = "NetworkModule" THEN { "online", "offline", "errored" }
    ELSE { "operational", "errored" }

\* a moduleStatus event of one of these modules reaches the tracker
ModuleReport(names) ==
    \E name \in names : \E status \in StatusesOf(name) :
        /\ emit(name, << status >>)
        /\ last' = Observed("idle", {}, {})
        /\ UNCHANGED <<config, clock, bootTime, mostRecentPacketFromEachSense, received, now,
                       processedShowIds, activePulseOverrides, degraded, schedulerStatus>>
        /\ UNCHANGED <<netVars, fixVars, sacnVars, overallStatus, color>>

\* the places of processAllModulesStatus() at which an exception is raised:
\* nowhere, before the modules are looked at (the logger), or in a listener of
\* the moduleStatusUpdate event that ends the tick
ThrowsAt == { "nowhere", "logger", "moduleStatusUpdate" }

\* the 2 s interval of the tracker: processAllModulesStatus(), whose catch
\* only writes to the log
processAllModulesStatus(throwsAt) ==
    \E throws \in throwsAt :
        LET marked == IF throws = "logger" THEN modules ELSE markUnresponsive(modules, clock)
            st == [color |-> color, overallStatus |-> overallStatus,
                   whiteBackupMode |-> whiteBackupMode]
            r == IF throws = "logger" THEN st ELSE processModuleStatuses(marked, st)
            armedNow == IF throws = "logger" \/ sacnErrored(marked) THEN {}
                        ELSE { m \in CriticalModules :
                                 getModuleStatusByName(marked, m) = "errored" }
            silent == { m \in DOMAIN marked : marked[m].status = "unresponsive" }
        IN  /\ modules' = marked
            /\ color' = r.color
            /\ overallStatus' = r.overallStatus
            /\ whiteBackupMode' = r.whiteBackupMode
            /\ armedSince' = [reported |-> armedSince.reported \cup armedNow,
                              tracked |-> (armedSince.tracked \ silent) \cup armedNow]
            /\ last' = Observed("processAllModulesStatus",
                                IF throws = "nowhere" THEN {}
                                ELSE { "processAllModulesStatus" }, {})
            /\ UNCHANGED <<config, clock, bootTime, mostRecentPacketFromEachSense, received,
                           now, processedShowIds, activePulseOverrides, degraded,
                           schedulerStatus>>
            /\ UNCHANGED <<netVars, fixVars, slotsDatas, errored, sent>>

\* a tick of the tracker in which nothing throws
SupervisorTick == processAllModulesStatus({ "nowhere" })

\* the clock runs from 0 to MaxSamples sample intervals of the tracker
MaxSamples == 6

\* one sample interval passes
ElapseSample ==
    /\ clock + SAMPLE_INTERVAL <= MaxSamples * SAMPLE_INTERVAL
    /\ clock' = clock + SAMPLE_INTERVAL
    /\ last' = Observed("idle", {}, {})
    /\ UNCHANGED <<config, bootTime, mostRecentPacketFromEachSense, received, now, processedShowIds,
                   activePulseOverrides, degraded, schedulerStatus>>
    /\ UNCHANGED <<netVars, fixVars, sacnVars, supVars>>

\* the groups of a zone in the layers that layerAnOverride is applied to
MaxGroups == 3

\* the slots of a layer whose shows all have this id: a scalar, or a group
\* vector of up to MaxGroups groups
SlotsOf(showId) ==
    { Sc(0), Sc(showId) }
        \cup UNION { { Gr(s) : s \in [1..n -> { 0, showId }] } : n \in 1..MaxGroups }

\* layers of ten slots: any slot of SlotsOf, then a scalar, then zeros
LayersOf(showId) ==
    { Vec(<< first, second >>) : first \in SlotsOf(showId), second \in { Sc(0), Sc(showId) } }

\* bases: a scalar, or the first groups of 5, 0, 7, 8, ..., then a scalar
Bases ==
    LET groups(n) == [g \in 1..n |-> IF g = 2 THEN 0 ELSE 4 + g]
    IN  { Vec(<< first, second >>) :
            first \in { Sc(0), Sc(5) } \cup { Gr(groups(n)) : n \in 1..MaxGroups },
            second \in { Sc(0), Sc(1) } }

\* layerAnOverride applied to a base and two layers, the one and the other way
\* round; last keeps the arguments and the results
Layer ==
    /\ last.op = "init"
    /\ \E b \in Bases, x \in LayersOf(6), y \in LayersOf(3) :
          last' = [op |-> "layerAnOverride", failed |-> {}, layered |-> {},
                   call |-> << b, x, y >>,
                   once |-> layerAnOverride(b, x),
                   left |-> layerAnOverride(layerAnOverride(b, x), y),
                   right |-> layerAnOverride(b, layerAnOverride(x, y))]
    /\ UNCHANGED <<config, clock, bootTime, mostRecentPacketFromEachSense, received, now,
                   processedShowIds, activePulseOverrides, degraded, schedulerStatus>>
    /\ UNCHANGED <<netVars, fixVars, sacnVars, supVars>>

\* a show of the engine: static, without transition
EngineParams(direction, speed, splits, bounce, colors) ==
    [showType |-> "Static", direction |-> direction, speed |-> speed, size |-> 100,
     splits |-> splits, transition |-> "Both Edges", transitionWidth |-> 0,
     bounce |-> bounce, colors |-> colors]

EngineColors ==
    { << Color(255, 0, 0) >>, << Color(255, 0, 0), Color(0, 255, 0) >>,
      << Color(255, 0, 0), Color(0, 255, 0), Color(0, 0, 255) >> }

\* new AttitudeEngine3(params)
ConstructEngine(paramsSet) ==
    /\ ~engine3.constructed
    /\ \E params \in paramsSet :
        \E seed \in generateRandomNumberSeed(RETURN_DATA_ARRAY_LENGTH,
                                              RETURN_DATA_ARRAY_LENGTH) :
            /\ validateParams(params)
            /\ engine3' = newAttitudeEngine3(params, seed)
    /\ last' = Observed("new", {}, {})
    /\ UNCHANGED <<config, clock, bootTime, mostRecentPacketFromEachSense, received, now,
                   processedShowIds, activePulseOverrides, degraded, schedulerStatus>>
    /\ UNCHANGED <<netVars, schedule, engineInstances, sacnVars, supVars>>

\* engine.configure(params); invalid parameters throw and leave the engine as it is
ConfigureEngine(paramsSet) ==
    /\ engine3.constructed
    /\ \E params \in paramsSet :
        \E done \in { configure(engine3, params) } :
            /\ engine3' = done.engine
            /\ last' = [op |-> "configure", layered |-> {}, params |-> params,
                        failed |-> IF done.threw THEN { "configure" } ELSE {}]
    /\ UNCHANGED <<config, clock, bootTime, mostRecentPacketFromEachSense, received, now,
                   processedShowIds, activePulseOverrides, degraded, schedulerStatus>>
    /\ UNCHANGED <<netVars, schedule, engineInstances, sacnVars, supVars>>

\* engine.run(); last keeps the canvas before and after processDirections
RunEngine ==
    /\ engine3.constructed
    /\ engine3' = runEngine3(engine3)
    /\ IF engine3.config.showType = "All"
       THEN last' = [op |-> "run", failed |-> {}, layered |-> {},
                     canvas |-> << >>, directed |-> << >>]
       ELSE \E r \in { calculateStaticEffect(incrementFrameCounter(engine3)) } :
               last' = [op |-> "run", failed |-> {}, layered |-> {},
                        canvas |-> r.canvas, directed |-> r.directed]
    /\ UNCHANGED <<config, clock, bootTime, mostRecentPacketFromEachSense, received, now,
                   processedShowIds, activePulseOverrides, degraded, schedulerStatus>>
    /\ UNCHANGED <<netVars, schedule, engineInstances, sacnVars, supVars>>

\* a module hands a message to the NetworkModule
EnqueueData ==
    /\ network.enqueued < MaxMessages
    /\ network' = [enqueueData(network, network.enqueued + 1)
                      EXCEPT !.enqueued = @ + 1]
    /\ last' = Observed("enqueueData", {}, {})
    /\ UNCHANGED <<config, clock, bootTime, mostRecentPacketFromEachSense, received, now,
                   processedShowIds, activePulseOverrides, degraded, schedulerStatus>>
    /\ UNCHANGED <<fixVars, sacnVars, supVars>>

\* the 1 s interval of the NetworkModule; the fetch it starts has no timeout
PerformNetworkRequest ==
    /\ Len(network.inFlight) < MaxInFlight
    /\ network.requests < MaxRequests
    /\ network' = performNetworkRequest(network)
    /\ last' = [op |-> "performNetworkRequest", failed |-> {}, layered |-> {},
                payload |-> network.queue]
    /\ UNCHANGED <<config, clock, bootTime, mostRecentPacketFromEachSense, received, now,
                   processedShowIds, activePulseOverrides, degraded, schedulerStatus>>
    /\ UNCHANGED <<fixVars, sacnVars, supVars>>

\* the ways a fetch settles: ok; rejected or not ok; ok with a body that
\* cannot be read, which runs the first .then and the .catch
Outcomes == { "ok", "failed", "okBodyFailed" }

\* a request in flight settles; the write of the missed messages file may fail
RequestSettles ==
    \E i \in 1..Len(network.inFlight), outcome \in Outcomes, writeOk \in BOOLEAN :
        LET payload == network.inFlight[i]
            settled == [network EXCEPT !.inFlight = without(@, i)]
            then    == IF outcome = "failed" THEN settled
                       ELSE requestSucceeded(settled, payload)
            status  == IF network.errorCounter > MAX_ERROR_COUNT
                       THEN "reconnected" ELSE "online"
        IN  /\ network' = IF outcome = "ok" THEN then
                          ELSE requestFailed(then, payload, writeOk)
            /\ emit("NetworkModule",
                    IF outcome = "ok" THEN <<status>>
                    ELSE IF outcome = "failed" THEN <<"offline">>
                    ELSE <<status, "offline">>)
            /\ last' = [op |-> "requestSettles", failed |-> {}, layered |-> {},
                        payload |-> payload, outcome |-> outcome,
                        counted |-> network'.errorCounter, writeOk |-> writeOk]
            /\ UNCHANGED <<config, clock, bootTime, mostRecentPacketFromEachSense, received,
                           now, processedShowIds, activePulseOverrides, degraded,
                           schedulerStatus>>
            /\ UNCHANGED <<fixVars, sacnVars, overallStatus, color>>

\* half a second passes between two moduleStatus events
ElapseHalfSecond ==
    /\ clock + 500 <= MaxSeconds * 1000
    /\ clock' = clock + 500
    /\ last' = Observed("idle", {}, {})
    /\ UNCHANGED <<config, bootTime, mostRecentPacketFromEachSense, received, now,
                   processedShowIds, activePulseOverrides, degraded, schedulerStatus>>
    /\ UNCHANGED <<netVars, fixVars, sacnVars, supVars>>

----------------------------------------------------------------------------
(* Specifications *)

\* the Scheduler under every configuration, at the time of the start
ConfigUpdateAny == ConfigUpdate(Configs)
SchedNext == SchedulerTick \/ HandleNewSenseData \/ ConfigUpdateAny
SpecScheduler == Init /\ [][SchedNext]_vars

\* the Scheduler and its pulse timers as time passes
ConfigUpdateSense == ConfigUpdate(SenseConfigs)
PulseNext == SchedulerTick \/ HandleNewSenseData \/ ConfigUpdateSense \/ Elapse
SpecPulse == Init /\ [][PulseNext]_vars

\* the Scheduler under packets, with a port that fails before the pulse port
ConfigUpdatePackets == ConfigUpdate({ ConfigSense, ConfigBadOverrideFirst })
PacketsNext == SchedulerTick \/ HandleNewSenseData \/ ConfigUpdatePackets \/ Elapse
SpecPackets == Init /\ [][PacketsNext]_vars

\* the Scheduler and the fixture manager, with Scheduler ticks that throw
ConfigUpdateFinal == ConfigUpdate(FixtureConfigs \cup { ConfigBadWeekly, ConfigBadWeb })
FinalNext == ConfigUpdateFinal \/ SchedulerTick \/ SchedulerTickThrows \/ FixtureTick
SpecFinal == Init /\ [][FinalNext]_vars

\* the Scheduler under packets for ports with priorities
ConfigUpdatePriority == ConfigUpdate(PriorityConfigs)
PriorityNext == ConfigUpdatePriority \/ HandleNewSenseData
SpecPriority == Init /\ [][PriorityNext]_vars

\* the Scheduler under configurations whose senses have several ports and
\* whose event block has fewer show ids than there are zones
SnapshotConfigs ==
    { c \in PriorityConfigs : c.attitudeSenses[1].data[NumPorts].priority = NoPriority }
        \cup { ConfigSense, ConfigGroups, ConfigBadWeekly, ConfigBadOverrideFirst }
ConfigUpdateSnapshot == ConfigUpdate(SnapshotConfigs)
SnapshotNext ==
    ConfigUpdateSnapshot \/ SchedulerTick \/ SchedulerTickThrows \/ HandleNewSenseData
SpecSnapshot == Init /\ [][SnapshotNext]_vars

\* the Scheduler under web overrides with and without their overrides
ConfigUpdateWeb == ConfigUpdate(WebConfigs)
WebNext == ConfigUpdateWeb \/ SchedulerTick
SpecWeb == Init /\ [][WebNext]_vars

\* the Scheduler under web overrides that set the same zone
ConfigUpdateWebOrder == ConfigUpdate(WebOrderConfigs)
WebOrderNext == ConfigUpdateWebOrder \/ SchedulerTick
SpecWebOrder == Init /\ [][WebOrderNext]_vars

\* the Scheduler on several days of the year, around 09:00 and 10:00
CalendarInit ==
    SchedInitAt(CalendarBootTimes) /\ FixInit /\ SacnInit /\ SupInit /\ NetInit
ConfigUpdateCalendar == ConfigUpdate(CalendarConfigs)
CalendarNext == SchedulerTick \/ ConfigUpdateCalendar \/ Elapse
SpecCalendar == CalendarInit /\ [][CalendarNext]_vars

\* one engine whose show changes in speed, bounce and number of colours
CounterParams ==
    { EngineParams("Left to Right", speed, 1, bounce, colors) :
        speed \in { 180, 160, 5 }, bounce \in BOOLEAN, colors \in EngineColors }
ConstructCounting == ConstructEngine(CounterParams)
ConfigureCounting == ConfigureEngine(CounterParams)
CountersNext == ConstructCounting \/ ConfigureCounting \/ RunEngine
SpecCounters == Init /\ [][CountersNext]_vars

\* one engine that is configured with some of the parameters, in and out of
\* their domains
TooManyColors == [i \in 1..(MAX_COLORS_COUNT + 1) |-> Color(i, 0, 0)]
SuppliedColors == << Color(255, 0, 0) >>
OneParam ==
    { << >> } \cup { "speed" :> speed : speed \in { 160, 181 } }
              \cup { "size" :> size : size \in { 0, 100 } }
              \cup { "splits" :> splits : splits \in { 2, 11 } }
              \cup { "colors" :> colors : colors \in { << >>, TooManyColors } }
SuppliedParams == { one @@ other : one \in OneParam, other \in OneParam }
ConstructSupplied ==
    ConstructEngine({ EngineParams("Left to Right", 180, 1, FALSE, SuppliedColors) })
ConfigureSupplied == ConfigureEngine(SuppliedParams)
SuppliedNext == ConstructSupplied \/ ConfigureSupplied \/ RunEngine
SpecSupplied == Init /\ [][SuppliedNext]_vars

\* one engine of a show of type All, with every number of splits
AllParams ==
    { [EngineParams("Left to Right", 180, splits, FALSE,
                    << Color(255, 0, 0), Color(0, 255, 0) >>)
          EXCEPT !.showType = "All", !.size = size] :
        splits \in SPLITS_MIN..SPLITS_MAX, size \in { 100, 1 } }
ConstructAll == ConstructEngine(AllParams)
AllNext == ConstructAll \/ RunEngine
SpecAll == Init /\ [][AllNext]_vars

\* one engine whose show changes in direction and splits
DirectionParams ==
    { EngineParams(direction, 180, splits, FALSE, colors) :
        direction \in DIRECTIONS, splits \in { 1, 2 },
        colors \in { c \in EngineColors : Len(c) > 1 } }
ConstructDirected == ConstructEngine(DirectionParams)
ConfigureDirected == ConfigureEngine(DirectionParams)
DirectionsNext == ConstructDirected \/ ConfigureDirected \/ RunEngine
SpecDirections == Init /\ [][DirectionsNext]_vars

\* the fixture manager under shows that are known, missing and not translatable
ConfigUpdateUnknownShows ==
    ConfigUpdate({ ConfigPatchWeekly, ConfigUnknownShow, ConfigLegacyShow })
ShowsNext == ConfigUpdateUnknownShows \/ SchedulerTick \/ FixtureTick
SpecShows == Init /\ [][ShowsNext]_vars

\* the fixture manager under patches of which one zone fails
ConfigUpdateZones == ConfigUpdate(ZoneConfigs)
ZonesNext == ConfigUpdateZones \/ SchedulerTick \/ FixtureTick
SpecZones == Init /\ [][ZonesNext]_vars

\* the fixture manager under schedules that bring shows in and take them out, on
\* a device that is assigned to a location or not
PoolShows ==
    << TimedShow(10, << Color(255, 0, 0) >>, 180),
       TimedShow(20, << Color(0, 0, 255), Color(0, 255, 0) >>, 180),
       TimedShow(5, << Color(0, 255, 0) >>, 160) >>
PoolConfigs ==
    { [ConfigPatchWeekly EXCEPT
          !.shows = PoolShows, !.customBlocks = blocks, !.assignedToLocation = assigned] :
        blocks \in { << >>, << CustomBlock(Vec(<<Sc(0), Sc(5)>>)) >>,
                     << CustomBlock(Vec(<<Sc(5), Sc(5)>>)) >> },
        assigned \in BOOLEAN }
ConfigUpdatePool == ConfigUpdate(PoolConfigs)
PoolNext == ConfigUpdatePool \/ SchedulerTick \/ FixtureTick
SpecPool == Init /\ [][PoolNext]_vars

\* the Scheduler and the fixture manager under configurations of which each
\* schedules shows of its own shows list only
ShowsWithIds(ids) == SelectSeq(TheShows, LAMBDA show : show.id \in ids)
ConsistentConfigs ==
    { [ConfigPatchWeekly EXCEPT !.shows = ShowsWithIds({ 10, 20 })],
      [ConfigPatchWeekly EXCEPT
          !.customBlocks = << CustomBlock(Vec(<<Sc(0), Sc(5)>>)) >>,
          !.shows = ShowsWithIds({ 10, 20, 5 })],
      [ConfigPatchWeekly EXCEPT
          !.eventBlocks = << EventBlock(7, <<Sc(5), Sc(6)>>) >>,
          !.shows = ShowsWithIds({ 5, 6 })] }
ConfigUpdateConsistent == ConfigUpdate(ConsistentConfigs)
ConsistentNext == ConfigUpdateConsistent \/ SchedulerTick \/ FixtureTick
SpecConsistent == Init /\ [][ConsistentNext]_vars

\* the fixture manager under the schedules of the Scheduler
ConfigUpdateFixture == ConfigUpdate(FixtureConfigs)
FixtureNext == ConfigUpdateFixture \/ SchedulerTick \/ FixtureTick
SpecFixture == Init /\ [][FixtureNext]_vars

\* the Supervisor under the reports of the modules it consults
ModuleReportAny == ModuleReport(ModuleNames)
SupervisorNext == ModuleReportAny \/ SupervisorTick
SpecSupervisor == Init /\ [][SupervisorNext]_vars

\* the Supervisor as time passes, under the reports of the critical modules
\* and of the transmitter
ModuleReportCritical == ModuleReport(CriticalModules \cup { "AttitudeSACN" })
RecoveryNext == ModuleReportCritical \/ SupervisorTick \/ ElapseSample
SpecRecovery == Init /\ [][RecoveryNext]_vars

\* the transmitter with the fixture manager and the Supervisor
ConfigUpdateShows == ConfigUpdate({ ConfigPatchWeekly, ConfigUnknownShow })
SacnNext ==
    ConfigUpdateShows \/ SchedulerTick \/ FixtureTick \/ SupervisorTick \/ ProcessDMX
        \/ FpsInterval
SpecSACN == Init /\ [][SacnNext]_vars

\* the four periodic tasks under the faults of each: a schedule layer that
\* throws, a show that is not in the configuration, a send that throws, and
\* an exception in the tick of the tracker
ConfigUpdateFaults == ConfigUpdate({ ConfigPatchWeekly, ConfigUnknownShow, ConfigBadWeekly })
SupervisorTickThrows == processAllModulesStatus(ThrowsAt)
FaultsNext ==
    ConfigUpdateFaults \/ SchedulerTick \/ FixtureTick \/ ProcessDMX \/ SupervisorTickThrows
SpecFaults == Init /\ [][FaultsNext]_vars

\* the table of the tracker under reports that are half a second or more apart
ModuleReportTasks == ModuleReport(CriticalModules)
StickyNext == ModuleReportTasks \/ ElapseHalfSecond
SpecSticky == Init /\ [][StickyNext]_vars

\* layerAnOverride under bases and layers of scalars and group vectors
LayerNext == Layer
SpecLayer == Init /\ [][LayerNext]_vars

\* the sense manager under valid and invalid packets
ReceivedAnyUDP == receivedUDP(Packets)
SenseNext == ReceivedAnyUDP \/ SchedulerTick
SpecSense == Init /\ [][SenseNext]_vars

\* the universes under the calls of set()
SetNext == Set
SpecSet == Init /\ [][SetNext]_vars

\* the NetworkModule: messages are enqueued, requests start and settle
NetworkNext == EnqueueData \/ PerformNetworkRequest \/ RequestSettles
SpecNetwork == Init /\ [][NetworkNext]_vars

----------------------------------------------------------------------------
(* Properties of the Scheduler *)

weeklyLayer == processedShowIds.defaultWeeklySchedule
customLayer == processedShowIds.customScheduleBlocks
sensorLayer == processedShowIds.overrides
webLayer == processedShowIds.webOverrides
finalSchedule == processedShowIds.final

afterTick == last.op = "processSchedule"

\* C1: after every Scheduler tick, for any configuration and sensor state, the
\* final schedule has exactly ten slots.
C1_FinalHasTenSlots ==
    Len(finalSchedule) = MAX_ZONES_COUNT

\* the value of a layer at slot z when the layer holds a nonzero number there
hasNumber(layer, z) == z \in DOMAIN layer /\ ~layer[z].arr /\ Num(layer[z]) # 0

\* slot z holds no array in any of the four layers
scalarSlot(z) ==
    \A layer \in {weeklyLayer, customLayer, sensorLayer, webLayer} :
        z \in DOMAIN layer => ~layer[z].arr

topmostNonzero(z) ==
    IF hasNumber(webLayer, z) THEN webLayer[z]
    ELSE IF hasNumber(sensorLayer, z) THEN sensorLayer[z]
    ELSE IF hasNumber(customLayer, z) THEN customLayer[z]
    ELSE IF hasNumber(weeklyLayer, z) THEN weeklyLayer[z]
    ELSE Sc(0)

\* C2: each scalar slot of the final vector is the value of the topmost layer
\* (web, sensor, custom, weekly) that is nonzero there, or 0; and layering an
\* all-zero vector onto any of the vectors of the Scheduler returns it unchanged.
C2_TopmostNonzeroWins ==
    /\ \A z \in DOMAIN finalSchedule :
          scalarSlot(z) => finalSchedule[z] = topmostNonzero(z)
    /\ \A base \in {weeklyLayer, customLayer, sensorLayer, webLayer, finalSchedule} :
          layerAnOverride(base, Zeros) = base

\* a tick in which the sensor layer (99 in slot 2) covers the custom layer (30) and
\* the weekly layer (20)
C2_Witness ==
    /\ afterTick
    /\ scalarSlot(2)
    /\ Num(weeklyLayer[2]) = 20 /\ Num(customLayer[2]) = 30
    /\ Num(sensorLayer[2]) = 99 /\ Num(webLayer[2]) = 0
    /\ Num(finalSchedule[2]) = 99

\* C3: when a layer fails during a tick, that layer is all zeros, the status
\* emitted for the tick is degraded, the layers that did not fail hold what they
\* compute from the configuration, the time and the sensor state, and the final
\* vector is the composition of the four layers.
C3_FailedLayerIsTransparent ==
    afterTick =>
        /\ \A L \in last.failed : processedShowIds[L] = Zeros
        /\ last.failed # {} => schedulerStatus = "degraded"
        /\ "defaultWeeklySchedule" \notin last.failed =>
              weeklyLayer = processWeeklySchedule(config, now).layer
        /\ "customScheduleBlocks" \notin last.failed =>
              customLayer = processCustomScheduleBlocks(config, now).layer
        /\ "overrides" \notin last.failed =>
              \A z \in DOMAIN sensorLayer :
                  Num(sensorLayer[z]) # 0 <=>
                      \E sp \in last.layered :
                          \E i \in DOMAIN config.overrides :
                              /\ config.overrides[i].id =
                                    config.attitudeSenses[1].data[sp[2]].override_id
                              /\ Num(config.overrides[i].showsdata.val[z]) > 0
        /\ "webOverrides" \notin last.failed =>
              webLayer = processWebOverrides(config).layer
        /\ finalSchedule =
              layerAnOverride(layerAnOverride(layerAnOverride(
                  weeklyLayer, customLayer), sensorLayer), webLayer)
        /\ Len(finalSchedule) >= MAX_ZONES_COUNT

\* the sensor layer failed after the pulse override had been layered in; the web
\* layer (99 in slot 2) and the weekly layer (10 in slot 1) still show
C3_Witness ==
    /\ afterTick
    /\ last.failed = {"overrides"}
    /\ activePulseOverrides # << >>
    /\ schedulerStatus = "degraded"
    /\ Num(finalSchedule[1]) = 10 /\ Num(finalSchedule[2]) = 99

\* C4: at the end of every Scheduler tick every pulse timer has activeUntil later
\* than the current time, after any sequence of sensor packets, ticks and
\* configuration replacements.
C4_NoExpiredTimerAfterTick ==
    afterTick =>
        \A i \in DOMAIN activePulseOverrides :
            activePulseOverrides[i].activeUntil > clock

\* the pulse-mode ports of the configuration with a valid override and a valid
\* timeLength and timeMode, as <<index of the sense, port number>>
validPulsePorts ==
    { sp \in (DOMAIN config.attitudeSenses) \X (1..NumPorts) :
        /\ sp[2] \in DOMAIN config.attitudeSenses[sp[1]].data
        /\ LET port == config.attitudeSenses[sp[1]].data[sp[2]]
           IN  /\ port.mode = "pulse"
               /\ port.timeLength > 0
               /\ validTimeMode(port.timeMode)
               /\ \E i \in DOMAIN config.overrides :
                     /\ config.overrides[i].id = port.override_id
                     /\ config.overrides[i].showsdata.ok }

portOf(sp) == config.attitudeSenses[sp[1]].data[sp[2]]
senseIdOf(sp) == config.attitudeSenses[sp[1]].id

timersOf(sp) ==
    { i \in DOMAIN activePulseOverrides :
        /\ activePulseOverrides[i].attitudeSenseId = senseIdOf(sp)
        /\ activePulseOverrides[i].portNumber = sp[2] }

asserted(sp) ==
    getSensePortDataById(mostRecentPacketFromEachSense, senseIdOf(sp))[sp[2]] = 1

layeredIn(sp) == <<senseIdOf(sp), sp[2]>> \in last.layered

\* every slot the override of the port sets is set in the sensor layer
showsInSensorLayer(sp) ==
    \A i \in DOMAIN config.overrides :
        config.overrides[i].id = portOf(sp).override_id =>
            \A z \in DOMAIN sensorLayer :
                Num(config.overrides[i].showsdata.val[z]) > 0 => Num(sensorLayer[z]) > 0

pulseBehaviour(sp) ==
    /\ asserted(sp) =>
          \E i \in timersOf(sp) :
              activePulseOverrides[i].activeUntil =
                  clock + portOf(sp).timeLength * timeModeMs(portOf(sp).timeMode)
    /\ (\E i \in timersOf(sp) : clock < activePulseOverrides[i].activeUntil)
          => layeredIn(sp) /\ showsInSensorLayer(sp)
    /\ layeredIn(sp) =>
          \E i \in timersOf(sp) : clock < activePulseOverrides[i].activeUntil
    /\ \A i \in timersOf(sp) : clock < activePulseOverrides[i].activeUntil

timerStarted(sp) ==
    \E i \in timersOf(sp) :
        activePulseOverrides[i].activeUntil =
            clock + portOf(sp).timeLength * timeModeMs(portOf(sp).timeMode)

\* the packet that was received last asserts the port
assertedInPacket(sp) ==
    /\ received.senseData # << >>
    /\ received.object.ID = Integer(senseIdOf(sp))
    /\ received.senseData[1].data[sp[2]] = 1

\* the Scheduler ticked on the packet and saw every pulse port it asserts
packetObserved ==
    /\ afterTick
    /\ \A sp \in validPulsePorts : assertedInPacket(sp) => timerStarted(sp)

----------------------------------------------------------------------------
(* Properties of the fixture manager *)

afterFixtureTick == last.op = "processFixtures"

\* the nonzero show ids of a schedule, the ids of the groups included
nonzeroShowIds(sched) ==
    UNION { { sched[z].v[g] : g \in 1..Len(sched[z].v) } : z \in DOMAIN sched } \ {0}

----------------------------------------------------------------------------
(* Properties of the Supervisor *)

afterSupervisorTick == last.op = "processAllModulesStatus"

\* the status the tracker holds for a module after the tick
tracked(name) == IF name \in DOMAIN modules THEN modules[name].status ELSE ""

rule1 == tracked("AttitudeSACN") = "errored"
rule2 ==
    tracked("AttitudeScheduler") = "errored" \/ tracked("AttitudeFixtureManager") = "errored"
rule3 ==
    \/ tracked("AttitudeScheduler") = "degraded"
    \/ tracked("AttitudeFixtureManager") = "degraded"
    \/ \E name \in { "ConfigManager", "StatusTracker", "NetworkModule" } :
          tracked(name) = "errored"
rule4 == tracked("NetworkModule") = "online"
rule5 == tracked("NetworkModule") = "offline"

decided(led, overall) == color = led /\ overallStatus = overall

\* C7: after every Supervisor tick the LED colour and the overall status are
\* those of the first rule of the cascade that matches: sACN errored (E,
\* errored); Scheduler or fixture manager errored (C, white); Scheduler or
\* fixture manager degraded, or ConfigManager, StatusTracker or NetworkModule
\* errored (F, degraded); network online (A, online); network offline (B,
\* offline)
C7_FirstMatchingRule ==
    afterSupervisorTick =>
        /\ rule1 => decided("E", "errored")
        /\ (~rule1 /\ rule2) => decided("C", "white")
        /\ (~rule1 /\ ~rule2 /\ rule3) => decided("F", "degraded")
        /\ (~rule1 /\ ~rule2 /\ ~rule3 /\ rule4) => decided("A", "online")
        /\ (~rule1 /\ ~rule2 /\ ~rule3 /\ ~rule4 /\ rule5) => decided("B", "offline")

\* rules 3 and 4 both match and no earlier rule does: rule 3 decides
C7_Witness ==
    /\ afterSupervisorTick
    /\ ~rule1 /\ ~rule2 /\ rule3 /\ rule4
    /\ tracked("ConfigManager") = "errored"
    /\ decided("F", "degraded")

\* C8: after every Supervisor tick at which the sACN module is not errored,
\* white backup mode is on exactly when the Scheduler or the fixture manager
\* is errored
C8_ArmedIffCriticalErrored ==
    (afterSupervisorTick /\ ~rule1) => (whiteBackupMode <=> rule2)

\* white backup had been armed (the overall status is still white) and the
\* tick has disarmed it because no module is errored any more
C8_Witness ==
    /\ afterSupervisorTick
    /\ ~rule1 /\ ~rule2
    /\ overallStatus = "white"
    /\ ~whiteBackupMode

\* C9 as stated: after every Supervisor tick, white backup mode is on while a
\* module whose errored status armed it has not reported another status
C9_ArmedUntilReport ==
    (afterSupervisorTick /\ armedSince.reported # {}) => whiteBackupMode

\* C9: after every Supervisor tick, white backup mode is on while a module
\* whose errored status armed it has neither reported another status nor been
\* marked unresponsive after more than ten seconds of silence
C9_ArmedUntilReportOrSilence ==
    (afterSupervisorTick /\ armedSince.tracked # {}) => whiteBackupMode

\* the Scheduler armed white backup at least one sample interval ago and the
\* sACN module is errored at this tick: white backup stays on
C9_Witness ==
    /\ afterSupervisorTick
    /\ "AttitudeScheduler" \in armedSince.tracked
    /\ clock >= modules["AttitudeScheduler"].timestamp + SAMPLE_INTERVAL
    /\ rule1
    /\ whiteBackupMode

----------------------------------------------------------------------------
(* Properties of the transmitter *)

\* C10: every frame transmitted while white backup mode is on carries 255 in
\* every slot, whatever the universes held before the frame
C10_ArmedFramesAreWhite ==
    \A i \in 1..Len(sent.frames) :
        sent.frames[i].whiteBackupMode => sent.frames[i].slots = White

\* a complete frame sent in white backup mode after the patch had written the
\* colour of a show into universe 1
C10_Witness ==
    /\ last.op = "processDMX"
    /\ whiteBackupMode
    /\ Len(sent.frames) = NumUniverses
    /\ sent.buffers[1] # White
    /\ \A i \in 1..Len(sent.frames) : sent.frames[i].whiteBackupMode

\* the call of set() that led to this state
setCalled == last.op = "set"
inRange(call) ==
    /\ 1 <= call[1] /\ call[1] <= NumUniverses
    /\ 1 <= call[2] /\ call[2] <= NumSlots
    /\ 0 <= call[3] /\ call[3] <= 255

\* C11: set(u, c, v) writes v into the slot of channel c of universe u only
\* when u, c and v are in range; an out-of-range call changes no slot, and an
\* in-range call changes the addressed slot and no other
C11_SetWritesInRangeOnly ==
    [][ (last' .op = "set") =>
          LET call == last' .call
          IN  IF inRange(call)
              THEN slotsDatas' = [slotsDatas EXCEPT ![call[1]][call[2]] = call[3]]
              ELSE slotsDatas' = slotsDatas ]_vars

\* the last channel of the last universe was set to 0 from 255
C11_Witness ==
    /\ setCalled
    /\ last.call = <<NumUniverses, NumSlots, 0>>
    /\ slotsDatas[NumUniverses][NumSlots] = 0
    /\ \A u \in 1..NumUniverses, c \in 1..NumSlots :
          <<u, c>> # <<NumUniverses, NumSlots>> => slotsDatas[u][c] = 255

----------------------------------------------------------------------------
(* Properties of the fixture manager's tick *)

\* C12: a fixture tick of a device that is not assigned to a location leaves
\* 255 in every channel of every universe and runs neither the schedule nor
\* the engine nor the patch processing: the schedule copy and the engine pool
\* of the fixture manager stay as they were
C12_UnassignedTickWritesWhite ==
    [][ (last' .op = "processFixtures" /\ ~getAssignedToLocation(config)) =>
          /\ slotsDatas' = [u \in 1..NumUniverses |-> White]
          /\ schedule' = schedule
          /\ engineInstances' = engineInstances ]_vars

\* a tick of an unassigned device that had run shows while it was assigned:
\* its universes are white again, its pool still holds the engines of then and
\* its schedule copy is not the final schedule of the Scheduler
C12_Witness ==
    /\ afterFixtureTick
    /\ ~getAssignedToLocation(config)
    /\ slotsDatas = [u \in 1..NumUniverses |-> White]
    /\ engineInstances # << >>
    /\ schedule # processedShowIds.final

----------------------------------------------------------------------------
(* Properties of the sense manager *)

\* a string of sixteen values 0 or 1 separated by commas
sixteenBits(chars) ==
    /\ Len(chars) = 31
    /\ \A k \in 1..16 : chars[2 * k - 1] = "0" \/ chars[2 * k - 1] = "1"
    /\ \A k \in 1..15 : chars[2 * k] = ","

\* a TYPE=1 packet that passes validation
validPacket(object) ==
    /\ object.TYPE = Integer(1)
    /\ object.ID.type = "integer"
    /\ object.DATA.type = "string" /\ sixteenBits(object.DATA.chars)
    /\ object.NAME.type = "string"
    /\ object.VERSION.type # "undefined"
    /\ object.PACKET_NO.type # "undefined"

\* the cache with the entry of the packet's sense replaced by the packet
replaced(cache, object) ==
    [i \in DOMAIN cache \cup { object.ID.n } |-> IF i = object.ID.n THEN object ELSE cache[i]]

\* the sense ids looked up: those of the packets and one that no packet has
LookupIds == { 1, 2, 3 }

\* C13: the sensor cache changes only on valid TYPE=1 packets.  A packet that
\* is not valid leaves the cache unchanged and emits no senseData event; a
\* valid packet replaces the whole cache entry of its ID, leaves the entries
\* of the other senses alone and emits exactly one senseData event; the lookup
\* of an id that is not in the cache returns sixteen zeros
C13_CacheChangesOnValidPacketsOnly ==
    [][ LET object == received' .object
            cache == mostRecentPacketFromEachSense
        IN  /\ Len(received' .senseData) = (IF validPacket(object) THEN 1 ELSE 0)
            /\ mostRecentPacketFromEachSense' # cache =>
                    /\ validPacket(object)
                    /\ mostRecentPacketFromEachSense' = replaced(cache, object)
            /\ received' # received =>
                    mostRecentPacketFromEachSense' =
                        (IF validPacket(object) THEN replaced(cache, object) ELSE cache)
            /\ \A id \in LookupIds \ DOMAIN cache :
                    getSensePortDataById(cache, id) = [p \in 1..16 |-> 0] ]_vars

\* both senses are cached, the entry of sense 1 is its packet number 2, and the
\* packet handled last had no PACKET_NO: it emitted no senseData event and the
\* cache does not hold it
C13_Witness ==
    /\ DOMAIN mostRecentPacketFromEachSense = { 1, 2 }
    /\ mostRecentPacketFromEachSense[1].PACKET_NO = Integer(2)
    /\ received.object.TYPE = Integer(1)
    /\ received.object.PACKET_NO = Undefined
    /\ received.senseData = << >>
    /\ \A id \in { 1, 2 } : mostRecentPacketFromEachSense[id] # received.object

----------------------------------------------------------------------------
(* Properties of the periodic tasks *)

\* the module name under which each of the other periodic tasks reports
reporterOf(op) ==
    IF op = "processSchedule" THEN "AttitudeScheduler"
    ELSE IF op = "processFixtures" THEN "AttitudeFixtureManager"
    ELSE "AttitudeSACN"

\* the tracker holds a fault of this module
faultRecorded(name) ==
    /\ name \in DOMAIN modules
    /\ modules[name].status \in { "errored", "degraded" }
    /\ modules[name].timestamp = clock

\* C14: an exception raised inside a tick of a periodic task (Scheduler tick,
\* fixture tick, sACN send, tick of the tracker) is recorded as a moduleStatus
\* event: after such a tick the tracker holds a fault status of the task's
\* module, and for the tick of the tracker a status of a module that is none
\* of the other tasks
C14_FaultIsRecordedAsModuleStatus ==
    last.failed # {} =>
        IF last.op = "processAllModulesStatus"
        THEN \E name \in DOMAIN modules :
                /\ name \notin { "AttitudeScheduler", "AttitudeFixtureManager",
                                  "AttitudeSACN", "AttitudeSenseManager" }
                /\ faultRecorded(name)
        ELSE faultRecorded(reporterOf(last.op))

----------------------------------------------------------------------------
(* Properties of the table of the tracker *)

\* C15: an operational report that arrives within 1 s of the stored errored
\* or degraded report of the same module is ignored: whenever the stored
\* status of a module goes from errored or degraded to operational, the
\* report replaced is at least 1 s old
C15_OperationalWithinOneSecondIsIgnored ==
    [][ \A name \in DOMAIN modules :
            ( /\ modules[name].status \in { "errored", "degraded" }
              /\ modules' [name].status = "operational" )
            => modules' [name].timestamp - modules[name].timestamp >= 1000 ]_vars

\* C16: at each tick of the tracker every module whose last accepted report is
\* more than 10 s old has its status set to unresponsive, and a module whose
\* last accepted report is at most 10 s old keeps its reported status (no
\* module of the program is a one-time-event module)
C16_UnresponsiveAfterTenSeconds ==
    [][ (last' .op = "processAllModulesStatus") =>
          /\ DOMAIN modules' = DOMAIN modules
          /\ \A name \in DOMAIN modules :
                IF clock - modules[name].timestamp > 10 * 1000
                THEN /\ modules' [name].status = "unresponsive"
                     /\ modules' [name].timestamp = modules[name].timestamp
                ELSE modules' [name] = modules[name] ]_vars

\* after a tick, the Scheduler, silent for 12 s, is unresponsive and the fixture
\* manager, whose report is exactly 10 s old, is still operational
C16_Witness ==
    /\ afterSupervisorTick
    /\ CriticalModules \subseteq DOMAIN modules
    /\ clock - modules["AttitudeScheduler"].timestamp = 12 * 1000
    /\ modules["AttitudeScheduler"].status = "unresponsive"
    /\ clock - modules["AttitudeFixtureManager"].timestamp = 10 * 1000
    /\ modules["AttitudeFixtureManager"].status = "operational"

----------------------------------------------------------------------------
(* Properties of layerAnOverride *)

layered == last.op = "layerAnOverride"

\* the show ids of a layer that are not zero
nonzeroValues(layer) ==
    UNION { { layer[z].v[g] : g \in DOMAIN layer[z].v } : z \in DOMAIN layer } \ { 0 }

\* the nonzero show ids of the two layers are disjoint
disjointValues == nonzeroValues(last.call[2]) \cap nonzeroValues(last.call[3]) = {}

\* C17 as stated: for every base b and every pair of ten-slot layers x and y
\* with disjoint nonzero values, slots being scalars or group vectors,
\* layerAnOverride(layerAnOverride(b, x), y) = layerAnOverride(b, layerAnOverride(x, y))
C17_LayeringIsAssociative ==
    (layered /\ disjointValues) => last.left = last.right

\* no zone of y has a longer group vector than the group vector x has there
noLongerGroups ==
    \A z \in 1..MAX_ZONES_COUNT :
        (last.call[2][z].arr /\ last.call[3][z].arr)
            => Len(last.call[3][z].v) <= Len(last.call[2][z].v)

\* C17: layering is associative for layers of disjoint nonzero values in
\* which y has, at no zone where x has a group vector, a longer group vector
C17_LayeringIsAssociativeForMatchingGroups ==
    (layered /\ disjointValues /\ noLongerGroups) => last.left = last.right

\* groups 5, 0, 7 under the layers 6, 0, 0 and 0, 3, 0 give 6, 3, 7 both ways
C17_Witness ==
    /\ layered
    /\ last.call[1][1] = Gr(<< 5, 0, 7 >>)
    /\ last.call[2][1] = Gr(<< 6, 0, 0 >>)
    /\ last.call[3][1] = Gr(<< 0, 3, 0 >>)
    /\ last.left[1] = Gr(<< 6, 3, 7 >>)
    /\ last.right[1] = Gr(<< 6, 3, 7 >>)

\* C18: where the layer has a group vector, the result has a group vector of
\* the same groups whose entry g is the layer's if that is > 0, otherwise the
\* base's group g, or the base's first group (the scalar itself when the base
\* has a scalar) when the base has no group g
C18_GroupsFallBackToTheBase ==
    layered =>
        LET base == last.call[1]
            top == last.call[2]
            result == last.once
        IN  \A z \in 1..MAX_ZONES_COUNT :
                top[z].arr =>
                    /\ result[z].arr
                    /\ Len(result[z].v) = Len(top[z].v)
                    /\ \A g \in 1..Len(top[z].v) :
                          result[z].v[g] =
                              IF top[z].v[g] > 0 THEN top[z].v[g]
                              ELSE IF base[z].arr /\ g <= Len(base[z].v) THEN base[z].v[g]
                              ELSE base[z].v[1]

\* the example: 5, 0, 7 under 0, 6, 0 gives 5, 6, 7
C18_Witness ==
    /\ layered
    /\ last.call[1][1] = Gr(<< 5, 0, 7 >>)
    /\ last.call[2][1] = Gr(<< 0, 6, 0 >>)
    /\ last.once[1] = Gr(<< 5, 6, 7 >>)

----------------------------------------------------------------------------
(* Properties of the custom blocks *)

\* the current month/day lies in the date window of the block, which wraps around
\* the end of the year when endMD < startMD
inDateWindow(block) ==
    LET startMD == block.startMonth * 100 + block.startDay
        endMD == block.endMonth * 100 + block.endDay
        nowMD == now.month * 100 + now.day
    IN  IF endMD < startMD
        THEN nowMD >= startMD \/ nowMD <= endMD
        ELSE startMD <= nowMD /\ nowMD <= endMD

\* startMinutes <= nowMinutes < endMinutes
inMinutesOfDay(block) ==
    LET nowMinutes == now.hour * 60 + now.minute
    IN  /\ block.startHour * 60 + block.startMinute <= nowMinutes
        /\ nowMinutes < block.endHour * 60 + block.endMinute

activeNow(block) == block.hasDates /\ inDateWindow(block) /\ inMinutesOfDay(block)
activeAndCurrentFormat(block) == ~block.legacy /\ activeNow(block)

\* the layer to which exactly the first i custom blocks that are active now have
\* contributed, and the same for the active blocks of the current format
RECURSIVE layerOfActive(_)
layerOfActive(i) ==
    IF i = 0
    THEN Zeros
    ELSE IF activeNow(config.customBlocks[i])
    THEN layerAnOverride(layerOfActive(i - 1), config.customBlocks[i].showdata)
    ELSE layerOfActive(i - 1)

RECURSIVE layerOfActiveAndCurrentFormat(_)
layerOfActiveAndCurrentFormat(i) ==
    IF i = 0
    THEN Zeros
    ELSE IF activeAndCurrentFormat(config.customBlocks[i])
    THEN layerAnOverride(layerOfActiveAndCurrentFormat(i - 1),
                         config.customBlocks[i].showdata)
    ELSE layerOfActiveAndCurrentFormat(i - 1)

oldFormat(block) == block.legacy

\* the block is of the current format and lacks a start or end month or day
withoutDates(block) == ~block.legacy /\ ~block.hasDates

someBlock(P(_)) == \E i \in DOMAIN config.customBlocks : P(config.customBlocks[i])

\* the custom layer holds the active blocks of the configuration that are
\* neither of the old format nor without dates, and the layer did not fail
othersLayered ==
    /\ customLayer = layerOfActiveAndCurrentFormat(Len(config.customBlocks))
    /\ "customScheduleBlocks" \notin last.failed

thePorts == config.attitudeSenses[1].data

\* the show that the override of port i sets in zone z (0: none)
showOfPort(i, z) ==
    LET hasId(o) == o.id = thePorts[i].override_id
        ov == findIndex(config.overrides, hasId)
    IN  IF ov = 0 THEN 0 ELSE Num(config.overrides[ov].showsdata.val[z])

\* the toggle ports that the cached packet asserts and whose override sets zone z
assertedSetting(z) ==
    { i \in DOMAIN thePorts :
        /\ thePorts[i].mode = "toggle"
        /\ getSensePortDataById(mostRecentPacketFromEachSense,
                                config.attitudeSenses[1].id)[i] = 1
        /\ showOfPort(i, z) > 0 }

\* port i is layered above port j: its priority is the greater one (none is
\* the greatest), or the priorities are equal and its port number is lower
above(i, j) ==
    LET pi == thePorts[i].priority
        pj == thePorts[j].priority
    IN  IF pi = pj THEN i < j
        ELSE IF pi = NoPriority THEN TRUE
        ELSE IF pj = NoPriority THEN FALSE
        ELSE pi > pj

\* C29: within one sensor, ports are layered in ascending priority order, a
\* missing priority counting as +infinity, ties in descending original index:
\* a zone that asserted ports set holds the show of the port of the greatest
\* priority among them, and among ports of equal or missing priority the show
\* of the port of the lowest number.
C29_LowerPortNumberWinsATie ==
    (afterTick /\ Len(config.attitudeSenses) = 1) =>
        \A z \in DOMAIN sensorLayer :
            IF assertedSetting(z) = {}
            THEN sensorLayer[z] = Sc(0)
            ELSE \E i \in assertedSetting(z) :
                    /\ \A j \in assertedSetting(z) \ {i} : above(i, j)
                    /\ sensorLayer[z] = Sc(showOfPort(i, z))

\* ports 1 and 2 have no priority and are asserted; their overrides set zone 1
\* to 51 and to 61, and zone 1 shows 51
C29_Witness ==
    /\ afterTick
    /\ Len(config.attitudeSenses) = 1
    /\ thePorts[1].priority = NoPriority /\ thePorts[2].priority = NoPriority
    /\ { 1, 2 } \subseteq assertedSetting(1)
    /\ showOfPort(1, 1) = 51 /\ showOfPort(2, 1) = 61
    /\ sensorLayer[1] = Sc(51)

\* the configuration has an override with this id
hasOverride(id) == \E i \in DOMAIN config.overrides : config.overrides[i].id = id

\* the web override is active and references an override that is absent
dangling(web) == web.active /\ web.override_id # 0 /\ ~hasOverride(web.override_id)

\* the showsdata of the override with this id
showsdataOf(id) ==
    LET o == CHOOSE i \in DOMAIN config.overrides : config.overrides[i].id = id
    IN  config.overrides[o].showsdata.val

\* the layer of the active web overrides k, k + 1, ... that have an override,
\* the last of them layered first
RECURSIVE layerOfWebOverrides(_)
layerOfWebOverrides(k) ==
    IF k > Len(config.webOverrides)
    THEN Zeros
    ELSE IF config.webOverrides[k].active /\ config.webOverrides[k].override_id # 0
    THEN layerAnOverride(layerOfWebOverrides(k + 1),
                         showsdataOf(config.webOverrides[k].override_id))
    ELSE layerOfWebOverrides(k + 1)

\* C30: an active web override with a nonzero override_id whose override is
\* absent from the configuration is a hard error: the web-override layer is all
\* zeros in that tick and the Scheduler is degraded; an active web override
\* with override_id 0 is skipped without error.
C30_DanglingWebOverrideFailsTheLayer ==
    (afterTick /\ config \in WebConfigs) =>
        IF \E k \in DOMAIN config.webOverrides : dangling(config.webOverrides[k])
        THEN /\ webLayer = Zeros
             /\ "webOverrides" \in last.failed
             /\ degraded
        ELSE /\ webLayer = layerOfWebOverrides(1)
             /\ "webOverrides" \notin last.failed

\* the first web override references the absent override 9, the second is
\* active with override 2: the layer is all zeros and the Scheduler degraded
C30_Witness ==
    /\ afterTick
    /\ config.webOverrides = << WebOverride(TRUE, 9), WebOverride(TRUE, 2) >>
    /\ dangling(config.webOverrides[1])
    /\ webLayer = Zeros
    /\ degraded
    /\ schedulerStatus = "degraded"

\* the show that the override of web override k sets in zone z (0: none)
showOfWebOverride(k, z) ==
    IF hasOverride(config.webOverrides[k].override_id)
    THEN Num(showsdataOf(config.webOverrides[k].override_id)[z])
    ELSE 0

\* the active web overrides whose override sets zone z
activeSetting(z) ==
    { k \in DOMAIN config.webOverrides :
        config.webOverrides[k].active /\ showOfWebOverride(k, z) > 0 }

\* C31: active web overrides are layered in reverse configuration order: a
\* zone that active web overrides set holds the show of the one of them that
\* is listed first in the configuration.
C31_EarlierWebOverrideWins ==
    (afterTick /\ config \in WebOrderConfigs) =>
        \A z \in DOMAIN webLayer :
            IF activeSetting(z) = {}
            THEN webLayer[z] = Sc(0)
            ELSE \E k \in activeSetting(z) :
                    /\ \A j \in activeSetting(z) : k <= j
                    /\ webLayer[z] = Sc(showOfWebOverride(k, z))

\* the first web override is not active; the second sets zone 1 to 61 and the
\* third sets it to 51: zone 1 shows 61
C31_Witness ==
    /\ afterTick
    /\ config \in WebOrderConfigs
    /\ activeSetting(1) = { 2, 3 }
    /\ showOfWebOverride(2, 1) = 61 /\ showOfWebOverride(3, 1) = 51
    /\ webLayer[1] = Sc(61)
    /\ webLayer[2] = Sc(52)

----------------------------------------------------------------------------
(* Properties of the weekly schedule *)

\* the schedule blocks with day equal to today's weekday and
\* start-1 <= hour < start-1+height
blocksNow ==
    { b \in DOMAIN config.scheduleBlocks :
        /\ config.scheduleBlocks[b].day = now.weekday
        /\ config.scheduleBlocks[b].start - 1 <= now.hour
        /\ now.hour < config.scheduleBlocks[b].start - 1 + config.scheduleBlocks[b].height }

\* the event blocks with showdata that schedule block b refers to
eventBlocksOf(b) ==
    { e \in DOMAIN config.eventBlocks :
        /\ config.eventBlocks[e].id = config.scheduleBlocks[b].eventBlockId
        /\ config.eventBlocks[e].hasShowdata }

\* showdata followed by the zeros it lacks to have ten slots
rightPadded(showdata) ==
    showdata \o [z \in 1..(MAX_ZONES_COUNT - Len(showdata)) |-> Sc(0)]

\* C20: after a Scheduler tick the weekly layer is the showdata, right-padded with
\* zeros to ten slots, of the event block referenced by the schedule block of
\* today's weekday with start-1 <= hour < start-1+height; it is all zeros when no
\* schedule block matches; and it never holds anything but zeros or the showdata
\* of a block that matches in this tick (nothing is carried over from an earlier
\* tick).
C20_WeeklyLayerIsTheCurrentBlock ==
    afterTick =>
        /\ blocksNow = {} => weeklyLayer = Zeros
        /\ \A b \in blocksNow : \A e \in eventBlocksOf(b) :
              blocksNow = {b} => weeklyLayer = rightPadded(config.eventBlocks[e].showdata)
        /\ weeklyLayer \in
              {Zeros} \cup { rightPadded(config.eventBlocks[e].showdata) :
                                e \in UNION { eventBlocksOf(b) : b \in blocksNow } }

\* Sunday 09:00: the block of Sunday 09:00-10:00 gives its two shows and eight zeros
C20_Witness ==
    /\ afterTick
    /\ config = ConfigCalendar
    /\ now = Calendar(1, 1, 1, 9, 0)
    /\ blocksNow = {1}
    /\ weeklyLayer = <<Sc(10), Sc(20), Sc(0), Sc(0), Sc(0), Sc(0), Sc(0), Sc(0), Sc(0), Sc(0)>>

----------------------------------------------------------------------------
(* Properties of the engine *)

afterRun == last.op = "run"

\* C21: after every call of run() on an engine with a valid configuration, with
\* bounce on or off, 1 <= beatCounter <= colors.length and
\* 1 <= frameCounter <= framesPerBeat.
C21_CountersStayInRange ==
    afterRun =>
        /\ 1 <= engine3.beatCounter
        /\ engine3.beatCounter <= Len(engine3.config.colors)
        /\ 1 <= engine3.frameCounter
        /\ engine3.frameCounter <= engine3.framesPerBeat

\* the counters of the engine are within the beats and the frames of a beat,
\* and an engine without bounce runs forward
countersInRange ==
    /\ engine3.constructed
    /\ engine3.config.bounce \/ ~engine3.isInReverse
    /\ 1 <= engine3.beatCounter /\ engine3.beatCounter <= Len(engine3.config.colors)
    /\ 1 <= engine3.frameCounter /\ engine3.frameCounter <= engine3.framesPerBeat

\* the counters after the call: the same beat and the next frame of it
sameBeat(frame) ==
    /\ engine3'.beatCounter = engine3.beatCounter
    /\ engine3'.frameCounter = frame
    /\ engine3'.isInReverse = engine3.isInReverse

\* the counters after the call: this beat, from its first frame in this direction
nextBeat(beat, inReverse) ==
    /\ engine3'.beatCounter = beat
    /\ engine3'.frameCounter = IF inReverse THEN engine3.framesPerBeat ELSE 1
    /\ engine3'.isInReverse = inReverse

\* one call of run() without bounce: 1, 2, ..., colors.length, 1, ...
normalBeats ==
    IF engine3.frameCounter < engine3.framesPerBeat
    THEN sameBeat(engine3.frameCounter + 1)
    ELSE nextBeat(IF engine3.beatCounter = Len(engine3.config.colors)
                  THEN 1 ELSE engine3.beatCounter + 1, FALSE)

\* one call of run() with bounce: 1..n, then n..1, each beat for framesPerBeat calls
bounceBeats ==
    IF ~engine3.isInReverse
    THEN IF engine3.frameCounter < engine3.framesPerBeat
         THEN sameBeat(engine3.frameCounter + 1)
         ELSE IF engine3.beatCounter = Len(engine3.config.colors)
         THEN nextBeat(engine3.beatCounter, TRUE)
         ELSE nextBeat(engine3.beatCounter + 1, FALSE)
    ELSE IF engine3.frameCounter > 1
         THEN sameBeat(engine3.frameCounter - 1)
         ELSE IF engine3.beatCounter = 1
         THEN nextBeat(1, FALSE)
         ELSE nextBeat(engine3.beatCounter - 1, TRUE)

\* one call of run() on counters that are in range
beatsAsStated == IF engine3.config.bounce THEN bounceBeats ELSE normalBeats

\* C32: one beat spans exactly framesPerBeat calls of run(): without bounce the
\* beat counter cycles 1, 2, ..., colors.length, 1, ... with the frame counter
\* reset to 1 at each advance; with bounce the beats reflect at both ends
\* (1..n then n..1), the frame counter reset to framesPerBeat in reverse.
C32_BeatSpansFramesPerBeat ==
    [][(RunEngine /\ countersInRange) => beatsAsStated]_vars

\* the pixels of the canvas of the last run, before and after processDirections
\* a parameter of the last configure(params) that is outside its domain
outsideDomain ==
    LET params == last.params
    IN  \/ present(params, "speed") /\ params.speed \notin SPEED_MIN_BPM..SPEED_MAX_BPM
        \/ present(params, "size") /\ params.size \notin SIZE_MIN..SIZE_MAX
        \/ present(params, "splits") /\ params.splits \notin SPLITS_MIN..SPLITS_MAX
        \/ present(params, "colors") /\ Len(params.colors) \notin 1..MAX_COLORS_COUNT
configureThrew == last.op = "configure" /\ "configure" \in last.failed

\* C33: configure(params) with a supplied parameter outside its domain (speed
\* outside 10..180, size outside 1..200, splits outside 1..10, no colours or more
\* than 25) throws and leaves the configuration, framesPerBeat and the counters of
\* the engine as they were, whatever the other supplied parameters are; with
\* every supplied parameter inside its domain it does not throw.
C33_InvalidConfigureChangesNothing ==
    [][last'.op = "configure" =>
            /\ outsideDomain' <=> configureThrew'
            /\ outsideDomain' => engine3' = engine3]_vars

\* configure threw on a mix of valid parameters that differ from the engine's
\* and an invalid one, after the counters have moved
C33_Witness ==
    /\ configureThrew
    /\ present(last.params, "speed") /\ last.params.speed = 160
    /\ present(last.params, "colors") /\ last.params.colors = << >>
    /\ engine3.config.speed = 180 /\ engine3.framesPerBeat = 13
    /\ engine3.frameCounter = 5

\* C39: for show type All and every number of splits from 1 to 10, after run()
\* each of the 5000 pixels of the canvas is a defined colour: the sample of the
\* split the pixel belongs to, which always exists.
C39_AllEffectDefinesEveryPixel ==
    (afterRun /\ engine3.config.showType = "All") =>
        /\ Len(engine3.pixelData) = FULL_DATA_ARRAY_LENGTH
        /\ \A i \in 1..FULL_DATA_ARRAY_LENGTH : engine3.pixelData[i] # Undefined

canvas == last.canvas
directed == last.directed

\* C22: with direction random the output of processDirections is a permutation
\* of the input canvas under the seed of the engine: every output pixel is one of
\* the input pixels, and each input index is used exactly once.
C22_RandomDirectionPermutesTheCanvas ==
    (afterRun /\ engine3.config.direction = "Random") =>
        /\ Len(directed) = Len(canvas)
        /\ \A i \in 1..Len(directed) : \E j \in 1..Len(canvas) : directed[i] = canvas[j]
        /\ \A j \in 1..Len(canvas) :
              Cardinality({ i \in 1..Len(directed) : engine3.randomnessSeed[i] = j - 1 }) = 1

----------------------------------------------------------------------------
(* Properties of the shows of the engine pool *)

\* the show of pool entry i is not a known 2A show: it has no entry in the shows
\* list, or it is a show of the first engine that cannot be translated
notAKnown2AShow(i) ==
    \A k \in 1..Len(config.shows) :
        config.shows[k].id = engineInstances[i].showId =>
            (config.shows[k].engineVersion # "2A" /\ ~config.shows[k].valid)

gray == Color(128, 128, 128)

\* the fixtures of the zones that the schedule of the fixture manager gives to
\* this show output gray
fixturesOutputGray(showId) ==
    \A f \in 1..Len(config.fixtures) :
        LET fixture == config.fixtures[f]
        IN  schedule[fixture.zoneNumber] = Sc(showId) =>
                \A c \in 0..2 : slotsDatas[fixture.universe][fixture.startAddress + c] = 128

\* C23: after a fixture tick of an assigned device, every engine of the pool
\* that is not assigned a known 2A show has run with its default gray
\* configuration, its fixtures output gray, and the tick has completed.
C23_UnknownShowFallsBackToGray ==
    (afterFixtureTick /\ getAssignedToLocation(config)) =>
        \A i \in 1..Len(engineInstances) :
            notAKnown2AShow(i) =>
                /\ "processFixtures" \notin last.failed
                /\ engineInstances[i].engine.pixelData = << gray >>
                /\ fixturesOutputGray(engineInstances[i].showId)

----------------------------------------------------------------------------
(* Properties of the patch *)

\* the tick reached the patch: no exception before processPatchAndOutputShows
patched == afterFixtureTick /\ getAssignedToLocation(config) /\ last.failed = {}

fixtureTypeOf(fixture) ==
    { t \in 1..Len(config.fixtureTypes) : config.fixtureTypes[t].id = fixture.type }

\* the patching of zone z fails: the schedule has groups that the zone has not,
\* or a fixture of the zone has no type or a type of an unknown colour mode
zoneFails(z) ==
    \/ schedule[z].arr /\ config.zones[z].groups = 0
    \/ \E f \in 1..Len(config.fixtures) :
          /\ config.fixtures[f].zoneNumber = z
          /\ \/ fixtureTypeOf(config.fixtures[f]) = {}
             \/ \E t \in fixtureTypeOf(config.fixtures[f]) :
                   config.fixtureTypes[t].color \notin { "RGB", "RGBW" }

\* the show that the schedule of the fixture manager gives to a fixture
showOf(fixture) ==
    LET slot == schedule[fixture.zoneNumber]
    IN  IF ~slot.arr THEN Num(slot)
        ELSE IF fixture.groupNumber \in 1..Len(slot.v) THEN slot.v[fixture.groupNumber]
        ELSE 0

\* the colour of a show in this tick: the pixel of its engine, black for show 0
colourOf(showId) ==
    IF showId = 0 THEN Color(0, 0, 0)
    ELSE engineInstances[findEngineInstance(engineInstances, showId)].engine.pixelData[1]

\* the channels of the fixture hold the colour of its show
written(fixture) ==
    LET rgb == colourOf(showOf(fixture))
        values == slotsDatas[fixture.universe]
    IN  /\ values[fixture.startAddress] = rgb.red
        /\ values[fixture.startAddress + 1] = rgb.green
        /\ values[fixture.startAddress + 2] = rgb.blue

\* C24: in a fixture tick that reaches the patch, a zone whose patching fails is
\* reported as degraded, and every fixture of every other zone is written to DMX
\* with the colour of its show in that tick.
C24_FailedZoneAffectsThatZoneOnly ==
    patched =>
        /\ (\E z \in 1..Len(config.zones) : zoneFails(z)) =>
              \E i \in 1..Len(last.events) : last.events[i] = "degraded"
        /\ \A f \in 1..Len(config.fixtures) :
              ~zoneFails(config.fixtures[f].zoneNumber) => written(config.fixtures[f])

\* zone 1 failed on a fixture without type, after the universes were white: zone 2
\* shows the green of show 5
C24_Witness ==
    /\ patched
    /\ config = ConfigBadFixtureType
    /\ zoneFails(1) /\ ~zoneFails(2)
    /\ schedule[2] = Sc(5)
    /\ slotsDatas[1] = White
    /\ SubSeq(slotsDatas[2], 1, 4) = << 0, 255, 0, 0 >>


----------------------------------------------------------------------------
(* Properties of the NetworkModule *)

\* the items of a sequence
items(seq) == { seq[k] : k \in 1..Len(seq) }

\* a request has just failed: its .catch ran
requestJustFailed == last.op = "requestSettles" /\ last.outcome # "ok"

\* C25: when a network request fails, its outgoing payload is buffered on
\* disk for re-send: after the .catch of a request, every message of the
\* payload of that request is in the missed messages file.
C25_FailedPayloadIsBufferedOnDisk ==
    requestJustFailed => items(last.payload) \subseteq items(network.file)

----------------------------------------------------------------------------
(* Properties of the Scheduler and the fixture manager together *)

\* the Scheduler tick that ran last ended in the catch of processSchedule
tickThrew == afterTick /\ "processSchedule" \in last.failed

\* the final schedule is the four layers, layered
finalIsComposed ==
    finalSchedule = layerScheduleToCreateFinal(weeklyLayer, customLayer, sensorLayer,
                                               webLayer)

\* the final schedule changes in a step: a Scheduler tick has completed
finalChangesOnCompletion ==
    finalSchedule' # finalSchedule => (afterTick /\ ~tickThrew /\ finalIsComposed)'

\* a Scheduler tick ends in the catch: the final schedule is what it was
throwLeavesFinal == tickThrew' => (finalSchedule' = finalSchedule)

C34_TickLeavesTheConfiguration ==
    [][last'.op = "processSchedule" => config' = config]_vars

\* a tick has numbered and sorted the ports of a sense into another order than
\* the configured one, layered an override of them, and filled the show ids of
\* an event block up to the number of zones
C34_Witness ==
    /\ afterTick
    /\ ~tickThrew
    /\ last.layered # {}
    /\ \E s \in DOMAIN config.attitudeSenses :
          /\ Len(config.attitudeSenses[s].data) > 1
          /\ \E k \in DOMAIN config.attitudeSenses[s].data :
                sortedPorts(config.attitudeSenses[s].data)[k].portNumber # k
    /\ \E e \in DOMAIN config.eventBlocks :
          /\ config.eventBlocks[e].hasShowdata
          /\ Len(config.eventBlocks[e].showdata) < MAX_ZONES_COUNT
          /\ weeklyLayer = fillRemaining(config.eventBlocks[e].showdata)

\* the engine of the pool entry of a show id
engineOf(instances, id) ==
    instances[CHOOSE i \in DOMAIN instances : instances[i].showId = id].engine

\* the pool entry of this id after the step holds the engine that ran once more
\* from these counters
ranFrom(id, counters) ==
    LET engine == engineOf(engineInstances', id)
    IN  countersOf(engine) = countersAfterRun(counters, engine.framesPerBeat, engine.colors)

\* a fixture tick: the pool has one engine per show id of the final schedule,
\* the engines of the ids it had before have counted on, the others start
poolFollowsFinalSchedule ==
    /\ showIdsOf(engineInstances') = nonzeroShowIds(finalSchedule)
    /\ Len(engineInstances') = Cardinality(nonzeroShowIds(finalSchedule))
    /\ \A id \in showIdsOf(engineInstances') :
          IF id \in showIdsOf(engineInstances)
          THEN ranFrom(id, countersOf(engineOf(engineInstances, id)))
          ELSE ranFrom(id, countersOf(NewEngine))

\* C35 as stated: in every fixture tick an engine is created for a show id that
\* is new in the final schedule, the engine of an id that stays is the same
\* instance with its beat and frame counters continuing, and the engine of an id
\* that is no longer in the final schedule is removed.
C35_EngineLivesWithItsShowId == [][FixtureTick => poolFollowsFinalSchedule]_vars

\* C35 for a device that is assigned to a location: in every fixture tick an
\* engine is created for a show id that is new in the final schedule, the engine
\* of an id that stays is the same instance with its beat and frame counters
\* continuing, and the engine of an id that is no longer in the final schedule
\* is removed.
C35_EngineLivesWithItsShowIdWhenAssigned ==
    [][(FixtureTick /\ getAssignedToLocation(config)) => poolFollowsFinalSchedule]_vars

\* after a fixture tick the engine of show 10 is in its seventh frame, the
\* engine of show 20 is gone and the engine of show 5 ran for the first time
C35_Witness ==
    /\ afterFixtureTick
    /\ getAssignedToLocation(config)
    /\ showIdsOf(engineInstances) = { 10, 5 }
    /\ countersOf(engineOf(engineInstances, 10)).frameCounter = 7
    /\ countersOf(engineOf(engineInstances, 5)) = [beatCounter |-> 1, frameCounter |-> 2]

\* C36: the status the Scheduler emits at the end of a tick reflects that tick
\* only: after a tick in which no layer failed and that did not throw, the status
\* is operational, whatever happened in earlier ticks.
C36_StatusReflectsThisTickOnly ==
    (afterTick /\ last.failed = {}) => schedulerStatus = "operational"

\* C37: after every Supervisor tick, an overall status of white implies that
\* white backup mode is on: the overall status never says white while the
\* transmitter has been told to leave white backup.
C37_WhiteStatusMeansArmed ==
    afterSupervisorTick => (overallStatus = "white" => whiteBackupMode)

\* the show ids of a shows list
idsOfShows(shows) == { shows[k].id : k \in DOMAIN shows }

\* every show id that the blocks and overrides of the configuration schedule is
\* in its shows list
selfConsistent(cfg) ==
    /\ \A e \in DOMAIN cfg.eventBlocks :
          cfg.eventBlocks[e].hasShowdata =>
              nonzeroShowIds(cfg.eventBlocks[e].showdata) \subseteq idsOfShows(cfg.shows)
    /\ \A c \in DOMAIN cfg.customBlocks :
          nonzeroShowIds(cfg.customBlocks[c].showdata) \subseteq idsOfShows(cfg.shows)
    /\ \A o \in DOMAIN cfg.overrides :
          cfg.overrides[o].showsdata.ok =>
              nonzeroShowIds(cfg.overrides[o].showsdata.val) \subseteq idsOfShows(cfg.shows)

\* C38: when every configuration is self-consistent, every engine of the pool
\* has its show in the shows list that a fixture tick reads, and the fixture tick
\* does not fail, wherever the configuration was replaced between the Scheduler
\* ticks and the fixture ticks.
C38_ReplacementNeverFailsTheFixtureTick ==
    (afterFixtureTick /\ selfConsistent(config)) =>
        /\ showIdsOf(engineInstances) \subseteq idsOfShows(config.shows)
        /\ "processFixtures" \notin last.failed

\* the number of slots that a segment of this colour mode addresses
slotsOfColorMode(colorMode) ==
    IF colorMode = "RGB" THEN 3 ELSE IF colorMode = "RGBW" THEN 4 ELSE 0

\* the slots <<universe, channel>> that the segments of the fixtures of the
\* zones of the configuration address
addressedSlots(cfg) ==
    { slot \in (1..NumUniverses) \X (1..NumSlots) :
        \E f \in DOMAIN cfg.fixtures :
            LET fixture == cfg.fixtures[f]
                k == findFixtureType(cfg.fixtureTypes, fixture.type)
                segments == segmentsOf(fixture, cfg.fixtureTypes[k])
            IN  /\ fixture.zoneNumber \in DOMAIN cfg.zones
                /\ k # 0
                /\ \E i \in DOMAIN segments :
                      /\ segments[i].universe = slot[1]
                      /\ slot[2] >= segments[i].startAddress
                      /\ slot[2] < segments[i].startAddress
                                      + slotsOfColorMode(segments[i].colorMode) }

\* the slots outside this set are what they were
othersKeepTheirValue(slots) ==
    \A slot \in ((1..NumUniverses) \X (1..NumSlots)) \ slots :
        slotsDatas'[slot[1]][slot[2]] = slotsDatas[slot[1]][slot[2]]

\* C40: a fixture tick of a device assigned to a location changes only the DMX
\* slots that the segments of the configured fixtures of its zones address; every
\* other slot keeps the value it had (255 from the start, or what was written
\* for a fixture that is no longer in the patch).
C40_TickWritesAddressedSlotsOnly ==
    [][(FixtureTick /\ getAssignedToLocation(config))
            => othersKeepTheirValue(addressedSlots(config))]_vars

\* after a fixture tick a slot that no fixture of the patch addresses holds the
\* value written for a fixture of an earlier patch, a slot that no fixture ever
\* addressed holds 255, and an addressed slot holds a value of its show
C40_Witness ==
    /\ afterFixtureTick
    /\ getAssignedToLocation(config)
    /\ "processFixtures" \notin last.failed
    /\ \E slot \in ((1..NumUniverses) \X (1..NumSlots)) \ addressedSlots(config) :
          slotsDatas[slot[1]][slot[2]] # 255
    /\ \E slot \in ((1..NumUniverses) \X (1..NumSlots)) \ addressedSlots(config) :
          slotsDatas[slot[1]][slot[2]] = 255
    /\ \E slot \in addressedSlots(config) : slotsDatas[slot[1]][slot[2]] # 255

====
